---- MODULE Spec2Model ----
(***************************************************************************)
(* State-machine model of the RT-Thread adapter for isotp-c                *)
(* (isotp_rtt.c, isotp_rtt.h, examples/isotp_examples.c).                  *)
(*                                                                         *)
(* Execution contexts: application threads calling the blocking API, the   *)
(* CAN receive interrupt (producer), the consumer thread that dispatches   *)
(* queued frames, and the adapter's poll thread.  Every blocking point and *)
(* every call into the isotp-c engine is a separate step, so that the      *)
(* interleavings the scheduler can produce are the behaviours of the       *)
(* model.  The engine's effect is applied at the step that enters it; the  *)
(* context stays "inside" the engine until its next step.                  *)
(*                                                                         *)
(* The isotp-c engine (directory isotp-c/ of the package) is not part of   *)
(* the adapter's sources; it is modelled from its interface: segmentation  *)
(* into single / first / consecutive frames, flow control, completion      *)
(* callbacks.                                                              *)
(***************************************************************************)
EXTENDS Integers, Sequences, FiniteSets, TLC

(* ------------------------------ bounds --------------------------------- *)

\* Number of link objects that can ever be allocated (handles 1..MaxLinks).
MaxLinks == 3

\* Longest payload an application passes to isotp_rtt_send.
MaxLen == 2

\* Blocking API calls (send or receive) made in one behaviour.
MaxCalls == 2

\* Frames put on the bus by nodes outside the program.
MaxEnvFrames == 1

\* isotp_rtt_destroy calls made in one behaviour.
MaxDestroys == 1

\* Times the CAN device changes between accepting and refusing writes.
MaxFaults == 1

\* Depth of the CAN receive message queue (CAN_RX_MQ_SIZE, 32 in the
\* example, scaled down so that overflow is reachable).
CAN_RX_MQ_SIZE == 2

(* --------------------------- program constants ------------------------- *)

\* RT_NULL: the null link handle / null device.
NULL == 0

\* &g_link_list_head: the sentinel node of the global list of links.
HEAD == 0

EVENT_FLAG_TX_DONE == "TX_DONE"
EVENT_FLAG_RX_DONE == "RX_DONE"
EVENT_FLAG_ERROR == "ERROR"

RT_EOK == "RT_EOK"
RT_ERROR == "-RT_ERROR"
RT_ETIMEOUT == "-RT_ETIMEOUT"
RT_EFULL == "-RT_EFULL"
RT_ENOMEM == "-RT_ENOMEM"
RT_EINVAL == "-RT_EINVAL"

ISOTP_RET_OK == "ISOTP_RET_OK"
ISOTP_RET_ERROR == "ISOTP_RET_ERROR"
ISOTP_RET_INPROGRESS == "ISOTP_RET_INPROGRESS"
ISOTP_RET_OVERFLOW == "ISOTP_RET_OVERFLOW"

RT_WAITING_FOREVER == "RT_WAITING_FOREVER"

\* A finite timeout in ticks; how long it lasts is left to the scheduler.
FINITE == "finite"

\* The CAN device handle the example opens.
DEV == 1

\* Data bytes one frame of the engine carries (7 / 6 / 7 on classic CAN,
\* one byte here so that a two-byte payload is a multi-frame message).
FrameCap == 1

(* ------------------------------- sets ---------------------------------- *)

Handles == 1..MaxLinks
Nodes == {HEAD} \cup Handles
Threads == {1, 2}
Bytes == {1, 2}
ArbIds == {1, 2}

Min(a, b) == IF a < b THEN a ELSE b

\* All byte strings of length 1..n.
RECURSIVE SeqsUpTo(_)
SeqsUpTo(n) == IF n = 0 THEN {} ELSE SeqsUpTo(n - 1) \cup [1..n -> Bytes]

Payloads == SeqsUpTo(MaxLen)

\* A buffer of n bytes as static storage holds it before any write.
Zeros(n) == [i \in 1..n |-> 0]

\* memcpy(dst, src, n): the first n bytes of dst replaced by those of src.
Memcpy(dst, src, n) == [i \in 1..Len(dst) |-> IF i <= n THEN src[i] ELSE dst[i]]

VARIABLES
  links,      \* struct isotp_rtt_link per handle (adapter fields)
  engine,     \* IsoTpLink per handle (state of the isotp-c engine)
  list,       \* next / prev pointers of g_link_list_head and the nodes
  thr,        \* application threads: position in the API call and its locals
  disp,       \* consumer thread: position in isotp_rtt_on_can_msg_received
  poll,       \* poll thread: position in _poll_thread_entry
  bus,        \* frames written to the CAN device, not yet received
  can_rx_mq,  \* the message queue between ISR and consumer thread
  dev_ok,     \* whether rt_device_write currently accepts a frame
  budget,     \* what the environment may still do (bounds the behaviours)
  hist        \* history: facts about past steps that the claims refer to

vars == <<links, engine, list, thr, disp, poll, bus, can_rx_mq, dev_ok, budget, hist>>

(* ----------------------- struct isotp_rtt_link ------------------------- *)

\* Memory of a link that is not allocated.
NoLink == [state |-> "unused", can_dev |-> NULL, recv_arbitration_id |-> 0, send_ide |-> "STD", send_rtr |-> "DTR", event |-> {}, send_mutex |-> NULL, rx_buf |-> <<>>, rx_buf_size |-> 0, rx_actual_size |-> 0, rx_truncated |-> FALSE, tx_done_ops |-> {}, rx_dones |-> 0, rx_taken |-> 0, rx_reported |-> 0, mutex_created |-> FALSE]

\* IsoTpLink after isotp_init_link.
isotp_init_link(send_id, send_buf_size) == [send_arbitration_id |-> send_id, send_buf_size |-> send_buf_size, send_status |-> "IDLE", send_buf |-> <<>>, send_offset |-> 0, send_fc |-> FALSE, send_op |-> 0, receive_status |-> "IDLE", receive_size |-> 0, receive_offset |-> 0]

NoEngine == isotp_init_link(0, 0)

(* --------------------------- the link list ----------------------------- *)

\* An insertion in front of l: with the list head as l, at the tail of the list.
rt_list_insert_before(lst, l, n) == [next |-> [lst.next EXCEPT ![n] = l, ![lst.prev[l]] = n], prev |-> [lst.prev EXCEPT ![l] = n, ![n] = lst.prev[l]]]

\* rt_list_insert_after(l, n)
rt_list_insert_after(lst, l, n) == [next |-> [lst.next EXCEPT ![n] = lst.next[l], ![l] = n], prev |-> [lst.prev EXCEPT ![lst.next[l]] = n, ![n] = l]]

\* rt_list_remove(n)
rt_list_remove(lst, n) == [next |-> [lst.next EXCEPT ![lst.prev[n]] = lst.next[n], ![n] = n], prev |-> [lst.prev EXCEPT ![lst.next[n]] = lst.prev[n], ![n] = n]]

\* The list as a traversal from the head sees it, front first.
RECURSIVE Walk(_, _, _)
Walk(lst, n, fuel) == IF n = HEAD \/ fuel = 0 THEN <<>> ELSE <<n>> \o Walk(lst, lst.next[n], fuel - 1)

Registry == Walk(list, list.next[HEAD], MaxLinks)

Registered == {Registry[i] : i \in 1..Len(Registry)}

(* ------------------------- transport and clock ------------------------- *)

\* struct rt_can_msg as the adapter fills it in.
CanMsg(id, ide, rtr, kind, total, data) == [id |-> id, ide |-> ide, rtr |-> rtr, len |-> Len(data), kind |-> kind, total |-> total, data |-> data]

\* A transmit callback that writes every frame as a standard data frame.
isotp_user_send_can_Standard(lnk, arbitration_id, kind, total, data, b, ok) ==
  IF lnk.state # "live" \/ lnk.can_dev = NULL
    THEN [ret |-> ISOTP_RET_ERROR, bus |-> b]
    ELSE IF ok
      THEN [ret |-> ISOTP_RET_OK, bus |-> Append(b, CanMsg(arbitration_id, "STD", "DTR", kind, total, data))]
      ELSE [ret |-> ISOTP_RET_ERROR, bus |-> b]

\* isotp_user_send_can: the frame the engine asks for is written to the
\* link's device.  Yields the engine's return code and the bus afterwards.
isotp_user_send_can(lnk, arbitration_id, kind, total, data, b, ok) ==
  IF lnk.state # "live" \/ lnk.can_dev = NULL
    THEN [ret |-> ISOTP_RET_ERROR, bus |-> b]
    ELSE IF ok
      THEN [ret |-> ISOTP_RET_OK, bus |-> Append(b, CanMsg(arbitration_id, lnk.send_ide, lnk.send_rtr, kind, total, data))]
      ELSE [ret |-> ISOTP_RET_ERROR, bus |-> b]

\* The tick rate of the kernel and the microseconds of a second.
RT_TICK_PER_SECOND == 1000
UsPerSecond == 1000000

\* A uint32_t is kept as two 16-bit halves, [hi, lo].
Word == 65536

\* a <= b for two uint32_t values.
U32Leq(a, b) == a.hi < b.hi \/ (a.hi = b.hi /\ a.lo <= b.lo)

\* How often tick * 1000000 / RT_TICK_PER_SECOND has passed 2^32: the part of
\* the 64-bit quotient the cast to uint32_t cuts off.
UsPeriod(tick) ==
  LET k == UsPerSecond \div RT_TICK_PER_SECOND
      p == (tick % Word) * k
  IN ((tick \div Word) * k + p \div Word) \div Word

\* A clock that keeps only the low 16 bits of the microsecond count.
isotp_user_get_us_Narrow(tick) ==
  LET k == UsPerSecond \div RT_TICK_PER_SECOND
      p == (tick % Word) * k
  IN [hi |-> 0, lo |-> p % Word]

\* isotp_user_get_us: (uint32_t)((rt_uint64_t)tick * 1000000 /
\* RT_TICK_PER_SECOND).  The 64-bit product cannot overflow and the tick
\* rate divides 1000000, so the quotient is tick * k, multiplied out here in
\* 16-bit halves and cut to its low 32 bits.
isotp_user_get_us(tick) ==
  LET k == UsPerSecond \div RT_TICK_PER_SECOND
      p == (tick % Word) * k
  IN [hi |-> ((tick \div Word) * k + p \div Word) % Word, lo |-> p % Word]

(* ------------------------- completion callbacks ------------------------ *)

\* rt_event_send(&event, flag)
rt_event_send(lnk, flag) == [lnk EXCEPT !.event = @ \cup {flag}]

\* _isotp_rtt_tx_done_cb: posts TX_DONE.  tx_done_ops remembers which send
\* operation each pending TX_DONE signal was posted for (history only).
\* A tx-completion callback that also posts the error bit.
_isotp_rtt_tx_done_cb_Error(lnk, op) == [rt_event_send(rt_event_send(lnk, EVENT_FLAG_TX_DONE), EVENT_FLAG_ERROR) EXCEPT !.tx_done_ops = @ \cup {op}]

_isotp_rtt_tx_done_cb(lnk, op) == [rt_event_send(lnk, EVENT_FLAG_TX_DONE) EXCEPT !.tx_done_ops = @ \cup {op}]

\* A completion callback that records the capacity instead of the size.
_isotp_rtt_rx_done_cb_Capacity(lnk, size) == rt_event_send([lnk EXCEPT !.rx_truncated = (size > lnk.rx_buf_size), !.rx_actual_size = lnk.rx_buf_size], EVENT_FLAG_RX_DONE)

\* _isotp_rtt_rx_done_cb: records size and truncation, posts RX_DONE.
\* rx_dones counts the completions signalled on the link (history only).
\* An rx-completion callback that sets the flag but records the size as
\* reported.
_isotp_rtt_rx_done_cb_NoClamp(lnk, size) ==
  rt_event_send([lnk EXCEPT !.rx_truncated = (size > lnk.rx_buf_size), !.rx_actual_size = size % 65536, !.rx_dones = @ + 1, !.rx_reported = size], EVENT_FLAG_RX_DONE)

\* An rx-completion callback that compares the size after its conversion
\* to uint16_t.
_isotp_rtt_rx_done_cb_Wrap(lnk, size) ==
  LET final_size == IF size % 65536 > lnk.rx_buf_size THEN lnk.rx_buf_size ELSE size % 65536
  IN rt_event_send([lnk EXCEPT !.rx_truncated = (size % 65536 > lnk.rx_buf_size), !.rx_actual_size = final_size, !.rx_dones = @ + 1, !.rx_reported = size], EVENT_FLAG_RX_DONE)

_isotp_rtt_rx_done_cb(lnk, size) ==
  LET final_size == IF size > lnk.rx_buf_size THEN lnk.rx_buf_size ELSE size % 65536
  IN rt_event_send([lnk EXCEPT !.rx_truncated = (size > lnk.rx_buf_size), !.rx_actual_size = final_size, !.rx_dones = @ + 1, !.rx_reported = size], EVENT_FLAG_RX_DONE)

(* ---------------------------- isotp-c engine --------------------------- *)

\* The bytes of data stored into buf from offset off on, as far as buf reaches.
StoreAt(buf, off, data) == [i \in 1..Len(buf) |-> IF i > off /\ i <= off + Len(data) THEN data[i - off] ELSE buf[i]]

\* What an engine call leaves behind: the engine, the adapter's link (the
\* callbacks and the receive buffer), the bus, and the call's return code.
World(eng, lnk, b, ret) == [eng |-> eng, lnk |-> lnk, bus |-> b, ret |-> ret]

\* isotp_send: a payload that fits one frame is sent at once and reported
\* done; a longer one starts with a first frame and stays in progress.
isotp_send(eng, lnk, b, payload, op, ok) ==
  IF Len(payload) > eng.send_buf_size THEN World(eng, lnk, b, ISOTP_RET_OVERFLOW)
  ELSE IF eng.send_status = "INPROGRESS" THEN World(eng, lnk, b, ISOTP_RET_INPROGRESS)
  ELSE IF Len(payload) <= FrameCap
    THEN LET w == isotp_user_send_can(lnk, eng.send_arbitration_id, "SF", Len(payload), payload, b, ok)
         IN IF w.ret = ISOTP_RET_OK
              THEN World([eng EXCEPT !.send_buf = payload, !.send_offset = Len(payload), !.send_op = op], _isotp_rtt_tx_done_cb(lnk, op), w.bus, ISOTP_RET_OK)
              ELSE World(eng, lnk, b, w.ret)
    ELSE LET w == isotp_user_send_can(lnk, eng.send_arbitration_id, "FF", Len(payload), SubSeq(payload, 1, FrameCap), b, ok)
         IN IF w.ret = ISOTP_RET_OK
              THEN World([eng EXCEPT !.send_buf = payload, !.send_offset = FrameCap, !.send_status = "INPROGRESS", !.send_fc = FALSE, !.send_op = op], lnk, w.bus, ISOTP_RET_OK)
              ELSE World(eng, lnk, b, w.ret)

\* isotp_on_can_message: one inbound frame.  A single frame, or the last
\* consecutive frame, completes a message (rx-completion callback); a first
\* frame is answered with a flow-control frame on the link's send identifier;
\* a flow-control frame lets a pending transmission continue.
isotp_on_can_message(eng, lnk, b, msg, ok) ==
  CASE msg.kind = "SF" ->
         World([eng EXCEPT !.receive_status = "IDLE"], _isotp_rtt_rx_done_cb([lnk EXCEPT !.rx_buf = StoreAt(@, 0, msg.data)], msg.len), b, ISOTP_RET_OK)
    [] msg.kind = "FF" ->
         IF msg.total <= msg.len THEN World(eng, lnk, b, ISOTP_RET_ERROR)
         ELSE LET w == isotp_user_send_can(lnk, eng.send_arbitration_id, "FC", 0, <<>>, b, ok)
              IN World([eng EXCEPT !.receive_status = "INPROGRESS", !.receive_size = msg.total, !.receive_offset = msg.len], [lnk EXCEPT !.rx_buf = StoreAt(@, 0, msg.data)], w.bus, ISOTP_RET_OK)
    [] msg.kind = "CF" ->
         IF eng.receive_status # "INPROGRESS" THEN World(eng, lnk, b, ISOTP_RET_ERROR)
         ELSE LET off == eng.receive_offset + msg.len
                  stored == [lnk EXCEPT !.rx_buf = StoreAt(@, eng.receive_offset, msg.data)]
              IN IF off >= eng.receive_size
                   THEN World([eng EXCEPT !.receive_status = "IDLE", !.receive_offset = off], _isotp_rtt_rx_done_cb(stored, eng.receive_size), b, ISOTP_RET_OK)
                   ELSE World([eng EXCEPT !.receive_offset = off], stored, b, ISOTP_RET_OK)
    [] OTHER ->
         IF eng.send_status = "INPROGRESS"
           THEN World([eng EXCEPT !.send_fc = TRUE], lnk, b, ISOTP_RET_OK)
           ELSE World(eng, lnk, b, ISOTP_RET_OK)

\* isotp_poll: the time-dependent part.  With flow control received, the
\* next consecutive frame is sent, and the last one completes the
\* transmission (tx-completion callback).  bs_expired / cr_expired say
\* whether the wait for a flow-control frame / for the next consecutive
\* frame has lasted too long at this call.
isotp_poll(eng, lnk, b, bs_expired, cr_expired, ok) ==
  LET rx == IF eng.receive_status = "INPROGRESS" /\ cr_expired THEN [eng EXCEPT !.receive_status = "IDLE"] ELSE eng
  IN IF rx.send_status # "INPROGRESS" THEN World(rx, lnk, b, ISOTP_RET_OK)
     ELSE IF ~rx.send_fc
       THEN World(IF bs_expired THEN [rx EXCEPT !.send_status = "ERROR"] ELSE rx, lnk, b, ISOTP_RET_OK)
       ELSE LET last == Min(rx.send_offset + FrameCap, Len(rx.send_buf))
                w == isotp_user_send_can(lnk, rx.send_arbitration_id, "CF", 0, SubSeq(rx.send_buf, rx.send_offset + 1, last), b, ok)
            IN IF w.ret # ISOTP_RET_OK THEN World([rx EXCEPT !.send_status = "ERROR"], lnk, b, w.ret)
               ELSE IF last >= Len(rx.send_buf)
                 THEN World([rx EXCEPT !.send_offset = last, !.send_status = "IDLE"], _isotp_rtt_tx_done_cb(lnk, rx.send_op), w.bus, ISOTP_RET_OK)
                 ELSE World([rx EXCEPT !.send_offset = last], lnk, w.bus, ISOTP_RET_OK)

(* --------------------------- RT-Thread objects ------------------------- *)

\* rt_event_recv(&event, set, RT_EVENT_FLAG_OR | RT_EVENT_FLAG_CLEAR, ...)
\* when some flag of set is posted: the flags received, and the link with
\* the requested flags cleared.
rt_event_recv(lnk, set) == [recved |-> lnk.event \cap set, lnk |-> [lnk EXCEPT !.event = @ \ set, !.tx_done_ops = IF EVENT_FLAG_TX_DONE \in set THEN {} ELSE @]]

\* rt_mutex_take(mutex, RT_WAITING_FOREVER) can return for thread t.
rt_mutex_take(lnk, t) == lnk.send_mutex = NULL

\* rt_mutex_release(mutex) by the owner.
rt_mutex_release(lnk, t) == [lnk EXCEPT !.send_mutex = NULL]

(* ------------------------------ contexts -------------------------------- *)

\* Value of *out_size before the call writes it.
UNSET == -1

\* An application thread outside any API call.
ThreadIdle == [pc |-> "idle", op |-> "none", link |-> NULL, payload |-> <<>>, timeout |-> FINITE, buf |-> <<>>, buf_size |-> 0, out_size |-> UNSET, ret |-> "none", engine_ret |-> "none", recved_evt |-> {}, opid |-> 0, got_ops |-> {}, waited |-> FALSE, pre_evt |-> {}, pre_dones |-> 0, seen_buf |-> <<>>, seen_size |-> 0, seen_dones |-> 0, returned_at |-> 0, buf_ok |-> TRUE, out_ok |-> TRUE, us |-> [hi |-> 0, lo |-> 0], at_tick |-> UNSET]

\* Positions of isotp_rtt_send between rt_mutex_take and rt_mutex_release.
SendCritical == {"clear", "send", "in_send", "wait", "release"}

\* Positions inside a blocking API call.
InCall == {"take", "r_wait", "r_copy"} \cup SendCritical

\* The handler of the frame kinds and identifiers the bus may carry from
\* nodes outside the program.
EnvFrames == {CanMsg(id, "STD", "DTR", k[1], k[2], k[3]) : id \in ArbIds \cup {3}, k \in {<<"SF", 1, <<1>>>>, <<"FF", 2, <<1>>>>, <<"CF", 0, <<2>>>>, <<"FC", 0, <<>>>>}}

\* The arguments isotp_rtt_create is called with: a client (sends on 1,
\* listens on 2), a server (sends on 2, listens on 1) with a receive buffer
\* of full or of one byte, a passive logger on the server's identifier, and
\* a call without a device.
CreateArgs == {[can_dev |-> DEV, send_id |-> 1, recv_id |-> 2, send_buf_size |-> MaxLen, recv_buf_size |-> MaxLen], [can_dev |-> DEV, send_id |-> 2, recv_id |-> 1, send_buf_size |-> MaxLen, recv_buf_size |-> MaxLen], [can_dev |-> DEV, send_id |-> 2, recv_id |-> 1, send_buf_size |-> 1, recv_buf_size |-> 1], [can_dev |-> DEV, send_id |-> 0, recv_id |-> 1, send_buf_size |-> 0, recv_buf_size |-> MaxLen], [can_dev |-> NULL, send_id |-> 1, recv_id |-> 2, send_buf_size |-> MaxLen, recv_buf_size |-> MaxLen]}

\* The handle rt_malloc returns: memory never handed out before.
FreshHandle == CHOOSE h \in Handles : links[h].state = "unused" /\ \A g \in Handles : g < h => links[g].state # "unused"

\* The header's precondition of create and destroy: no thread is iterating
\* the link list in isotp_rtt_on_can_msg_received at the same time.
ListNotDispatched == disp.pc = "idle"

\* What an application passes as a link handle: RT_NULL, or a handle that
\* isotp_rtt_create returned and isotp_rtt_destroy has not been called on.
IsHandle(h) == IF h = NULL THEN TRUE ELSE links[h].state = "live"

(* ------------------------- isotp_rtt_create / destroy ------------------ *)

\* What rt_mutex_create can return: a mutex object (TRUE) or, when the heap
\* cannot supply one, RT_NULL (FALSE).
rt_mutex_create == IF budget.nomem > 0 THEN BOOLEAN ELSE {TRUE}

\* The link isotp_rtt_create builds before it is inserted into the list.
NewLink(a, mtx) == [NoLink EXCEPT !.state = "live", !.mutex_created = mtx, !.can_dev = a.can_dev, !.recv_arbitration_id = a.recv_id, !.rx_buf = Zeros(a.recv_buf_size), !.rx_buf_size = a.recv_buf_size]

\* A create that returns the handle without inserting the link into the list.
isotp_rtt_create_NoInsert(a) ==
  /\ ListNotDispatched
  /\ budget.creates > 0
  /\ IF a.can_dev = NULL \/ \A h \in Handles : links[h].state # "unused"
       THEN /\ hist' = [hist EXCEPT !.created = NULL, !.arg_dev = a.can_dev]
            /\ budget' = [budget EXCEPT !.creates = @ - 1]
            /\ UNCHANGED <<links, engine, list>>
       ELSE LET h == FreshHandle
            IN \E mtx \in rt_mutex_create :
               /\ budget' = [budget EXCEPT !.creates = @ - 1, !.nomem = IF mtx THEN @ ELSE @ - 1]
               /\ links' = [links EXCEPT ![h] = NewLink(a, mtx)]
               /\ engine' = [engine EXCEPT ![h] = isotp_init_link(a.send_id, a.send_buf_size)]
               /\ list' = list
               /\ hist' = [hist EXCEPT !.created = h, !.reg = Append(@, h), !.arg_dev = a.can_dev]
  /\ UNCHANGED <<thr, disp, poll, bus, can_rx_mq, dev_ok>>

\* A create that does not look at the device handle.
isotp_rtt_create_NoDevCheck(a) ==
  /\ ListNotDispatched
  /\ budget.creates > 0
  /\ IF \A h \in Handles : links[h].state # "unused"
       THEN /\ hist' = [hist EXCEPT !.created = NULL, !.arg_dev = a.can_dev]
            /\ budget' = [budget EXCEPT !.creates = @ - 1]
            /\ UNCHANGED <<links, engine, list>>
       ELSE LET h == FreshHandle
            IN \E mtx \in rt_mutex_create :
               /\ budget' = [budget EXCEPT !.creates = @ - 1, !.nomem = IF mtx THEN @ ELSE @ - 1]
               /\ links' = [links EXCEPT ![h] = NewLink(a, mtx)]
               /\ engine' = [engine EXCEPT ![h] = isotp_init_link(a.send_id, a.send_buf_size)]
               /\ list' = rt_list_insert_after(list, HEAD, h)
               /\ hist' = [hist EXCEPT !.created = h, !.reg = Append(@, h), !.arg_dev = a.can_dev]
  /\ UNCHANGED <<thr, disp, poll, bus, can_rx_mq, dev_ok>>

isotp_rtt_create(a) ==
  /\ ListNotDispatched
  /\ budget.creates > 0
  /\ IF a.can_dev = NULL \/ \A h \in Handles : links[h].state # "unused"
       THEN /\ hist' = [hist EXCEPT !.created = NULL, !.arg_dev = a.can_dev]
            /\ budget' = [budget EXCEPT !.creates = @ - 1]
            /\ UNCHANGED <<links, engine, list>>
       ELSE LET h == FreshHandle
            IN \E mtx \in rt_mutex_create :
               /\ budget' = [budget EXCEPT !.creates = @ - 1, !.nomem = IF mtx THEN @ ELSE @ - 1]
               /\ links' = [links EXCEPT ![h] = NewLink(a, mtx)]
               /\ engine' = [engine EXCEPT ![h] = isotp_init_link(a.send_id, a.send_buf_size)]
               /\ list' = rt_list_insert_after(list, HEAD, h)
               /\ hist' = [hist EXCEPT !.created = h, !.reg = Append(@, h), !.arg_dev = a.can_dev]
  /\ UNCHANGED <<thr, disp, poll, bus, can_rx_mq, dev_ok>>

\* A destroy that leaves the link's node in the list.
isotp_rtt_destroy_NoRemove(h) ==
  /\ ListNotDispatched
  /\ budget.destroys > 0
  /\ links[h].state = "live"
  /\ budget' = [budget EXCEPT !.destroys = @ - 1]
  /\ links' = [links EXCEPT ![h].state = "freed"]
  /\ UNCHANGED <<engine, list, thr, disp, poll, bus, can_rx_mq, dev_ok, hist>>

isotp_rtt_destroy(h) ==
  /\ ListNotDispatched
  /\ budget.destroys > 0
  /\ links[h].state = "live"
  /\ budget' = [budget EXCEPT !.destroys = @ - 1]
  /\ list' = rt_list_remove(list, h)
  /\ links' = [links EXCEPT ![h].state = "freed"]
  /\ UNCHANGED <<engine, thr, disp, poll, bus, can_rx_mq, dev_ok, hist>>

\* History of the transport: the send operations whose payload frames were
\* written, in the order of the writes (a run of frames of one operation is
\* one entry).  b and b2 are the bus before and after an engine call.
LogTx(h, b, b2, op) == IF b2 # b /\ (h.txlog = <<>> \/ h.txlog[Len(h.txlog)] # op) THEN [h EXCEPT !.txlog = Append(@, op)] ELSE h

(* ------------------------------ isotp_rtt_send ------------------------- *)

\* The call begins: the null check, then the thread goes for the mutex.
SendCall(t, h, payload, timeout) ==
  /\ thr[t].pc = "idle"
  /\ budget.calls > 0
  /\ IsHandle(h)
  /\ budget' = [budget EXCEPT !.calls = @ - 1]
  /\ hist' = [hist EXCEPT !.nops = @ + 1]
  /\ thr' = [thr EXCEPT ![t] = [ThreadIdle EXCEPT !.op = "send", !.link = h, !.payload = payload, !.timeout = timeout, !.opid = hist.nops + 1, !.pc = IF h = NULL THEN "idle" ELSE "take", !.ret = IF h = NULL THEN RT_EINVAL ELSE "none"]]
  /\ UNCHANGED <<links, engine, list, disp, poll, bus, can_rx_mq, dev_ok>>

\* A send path whose take does not wait for the owner to release.
SendTake_NoWait(t) ==
  /\ thr[t].pc = "take"
  /\ links[thr[t].link].state = "live"
  /\ links' = [links EXCEPT ![thr[t].link].send_mutex = t]
  /\ thr' = [thr EXCEPT ![t].pc = "clear"]
  /\ UNCHANGED <<engine, list, disp, poll, bus, can_rx_mq, dev_ok, budget, hist>>

\* rt_mutex_take(link->send_mutex, RT_WAITING_FOREVER) returns.
SendTake(t) ==
  /\ thr[t].pc = "take"
  /\ links[thr[t].link].state = "live"
  /\ rt_mutex_take(links[thr[t].link], t)
  /\ links' = [links EXCEPT ![thr[t].link].send_mutex = t]
  /\ thr' = [thr EXCEPT ![t].pc = "clear"]
  /\ UNCHANGED <<engine, list, disp, poll, bus, can_rx_mq, dev_ok, budget, hist>>

\* The pre-clear: rt_event_recv of all three flags with timeout 0.
SendClear(t) ==
  /\ thr[t].pc = "clear"
  /\ links[thr[t].link].state = "live"
  /\ links' = [links EXCEPT ![thr[t].link] = rt_event_recv(@, {EVENT_FLAG_TX_DONE, EVENT_FLAG_ERROR, EVENT_FLAG_RX_DONE}).lnk]
  /\ thr' = [thr EXCEPT ![t].pc = "send"]
  /\ UNCHANGED <<engine, list, disp, poll, bus, can_rx_mq, dev_ok, budget, hist>>

\* The thread enters isotp_send.
SendEngine(t) ==
  /\ thr[t].pc = "send"
  /\ links[thr[t].link].state = "live"
  /\ LET h == thr[t].link
         w == isotp_send(engine[h], links[h], bus, thr[t].payload, thr[t].opid, dev_ok)
     IN /\ engine' = [engine EXCEPT ![h] = w.eng]
        /\ links' = [links EXCEPT ![h] = w.lnk]
        /\ bus' = w.bus
        /\ thr' = [thr EXCEPT ![t].pc = "in_send", ![t].engine_ret = w.ret]
        /\ hist' = LogTx(hist, bus, w.bus, thr[t].opid)
  /\ UNCHANGED <<list, disp, poll, can_rx_mq, dev_ok, budget>>

\* A send that waits for the event whatever isotp_send returned.
SendEngineReturn_AlwaysWait(t) ==
  /\ thr[t].pc = "in_send"
  /\ links[thr[t].link].state = "live"
  /\ thr' = [thr EXCEPT ![t].pc = "wait", ![t].ret = RT_EOK, ![t].waited = TRUE]
  /\ UNCHANGED <<links, engine, list, disp, poll, bus, can_rx_mq, dev_ok, budget, hist>>

\* isotp_send has returned: fail fast on rejection, else go and wait.
SendEngineReturn(t) ==
  /\ thr[t].pc = "in_send"
  /\ links[thr[t].link].state = "live"
  /\ thr' = IF thr[t].engine_ret # ISOTP_RET_OK
              THEN [thr EXCEPT ![t].pc = "release", ![t].ret = RT_ERROR]
              ELSE [thr EXCEPT ![t].pc = "wait", ![t].ret = RT_EOK, ![t].waited = TRUE]
  /\ UNCHANGED <<links, engine, list, disp, poll, bus, can_rx_mq, dev_ok, budget, hist>>

\* A send whose wait returns on whatever flag is posted on the link.
SendWaitDone_AnyFlag(t) ==
  /\ thr[t].pc = "wait"
  /\ links[thr[t].link].state = "live"
  /\ links[thr[t].link].event # {}
  /\ LET h == thr[t].link
         r == rt_event_recv(links[h], {EVENT_FLAG_TX_DONE, EVENT_FLAG_ERROR, EVENT_FLAG_RX_DONE})
     IN /\ links' = [links EXCEPT ![h] = r.lnk]
        /\ thr' = [thr EXCEPT ![t].pc = "release", ![t].recved_evt = r.recved, ![t].got_ops = links[h].tx_done_ops, ![t].ret = IF EVENT_FLAG_ERROR \in r.recved THEN RT_ERROR ELSE RT_EOK]
  /\ UNCHANGED <<engine, list, disp, poll, bus, can_rx_mq, dev_ok, budget, hist>>

\* rt_event_recv(TX_DONE | ERROR, timeout) returns RT_EOK.
SendWaitDone(t) ==
  /\ thr[t].pc = "wait"
  /\ links[thr[t].link].state = "live"
  /\ links[thr[t].link].event \cap {EVENT_FLAG_TX_DONE, EVENT_FLAG_ERROR} # {}
  /\ LET h == thr[t].link
         r == rt_event_recv(links[h], {EVENT_FLAG_TX_DONE, EVENT_FLAG_ERROR})
     IN /\ links' = [links EXCEPT ![h] = r.lnk]
        /\ thr' = [thr EXCEPT ![t].pc = "release", ![t].recved_evt = r.recved, ![t].got_ops = links[h].tx_done_ops, ![t].ret = IF EVENT_FLAG_ERROR \in r.recved THEN RT_ERROR ELSE RT_EOK]
  /\ UNCHANGED <<engine, list, disp, poll, bus, can_rx_mq, dev_ok, budget, hist>>

\* A timeout path that returns at once, without the cleanup label.
SendWaitTimeout_NoRelease(t) ==
  /\ thr[t].pc = "wait"
  /\ links[thr[t].link].state = "live"
  /\ thr[t].timeout # RT_WAITING_FOREVER
  /\ links[thr[t].link].event \cap {EVENT_FLAG_TX_DONE, EVENT_FLAG_ERROR} = {}
  /\ thr' = [thr EXCEPT ![t].pc = "idle", ![t].ret = RT_ETIMEOUT]
  /\ UNCHANGED <<links, engine, list, disp, poll, bus, can_rx_mq, dev_ok, budget, hist>>

\* A timeout path that aborts the transmission in the engine.
SendWaitTimeout_Abort(t) ==
  /\ thr[t].pc = "wait"
  /\ links[thr[t].link].state = "live"
  /\ thr[t].timeout # RT_WAITING_FOREVER
  /\ links[thr[t].link].event \cap {EVENT_FLAG_TX_DONE, EVENT_FLAG_ERROR} = {}
  /\ thr' = [thr EXCEPT ![t].pc = "release", ![t].ret = RT_ETIMEOUT]
  /\ engine' = [engine EXCEPT ![thr[t].link].send_status = "IDLE"]
  /\ UNCHANGED <<links, list, disp, poll, bus, can_rx_mq, dev_ok, budget, hist>>

\* rt_event_recv(TX_DONE | ERROR, timeout) times out.
SendWaitTimeout(t) ==
  /\ thr[t].pc = "wait"
  /\ links[thr[t].link].state = "live"
  /\ thr[t].timeout # RT_WAITING_FOREVER
  /\ links[thr[t].link].event \cap {EVENT_FLAG_TX_DONE, EVENT_FLAG_ERROR} = {}
  /\ thr' = [thr EXCEPT ![t].pc = "release", ![t].ret = RT_ETIMEOUT]
  /\ UNCHANGED <<links, engine, list, disp, poll, bus, can_rx_mq, dev_ok, budget, hist>>

\* rt_mutex_release and return.
SendRelease(t) ==
  /\ thr[t].pc = "release"
  /\ links[thr[t].link].state = "live"
  /\ links' = [links EXCEPT ![thr[t].link] = rt_mutex_release(@, t)]
  /\ thr' = [thr EXCEPT ![t].pc = "idle"]
  /\ UNCHANGED <<engine, list, disp, poll, bus, can_rx_mq, dev_ok, budget, hist>>

(* ------------------------ isotp_rtt_send_nonblocking ------------------ *)

ISOTP_RET_INVAL_ARGS == "ISOTP_RET_INVAL_ARGS"

\* A non-blocking send that first clears the link's event bits, as the
\* blocking send does.
isotp_rtt_send_nonblocking_Clear(t, h, payload) ==
  /\ thr[t].pc = "idle"
  /\ budget.calls > 0
  /\ IsHandle(h)
  /\ budget' = [budget EXCEPT !.calls = @ - 1]
  /\ LET call == [ThreadIdle EXCEPT !.op = "send_nonblocking", !.link = h, !.payload = payload, !.opid = hist.nops + 1]
     IN IF h = NULL
          THEN /\ thr' = [thr EXCEPT ![t] = [call EXCEPT !.ret = ISOTP_RET_INVAL_ARGS]]
               /\ hist' = [hist EXCEPT !.nops = @ + 1]
               /\ UNCHANGED <<links, engine, bus>>
          ELSE LET w == isotp_send(engine[h], [links[h] EXCEPT !.event = {}], bus, payload, hist.nops + 1, dev_ok)
               IN /\ engine' = [engine EXCEPT ![h] = w.eng]
                  /\ links' = [links EXCEPT ![h] = w.lnk]
                  /\ bus' = w.bus
                  /\ thr' = [thr EXCEPT ![t] = [call EXCEPT !.engine_ret = w.ret, !.ret = w.ret]]
                  /\ hist' = LogTx([hist EXCEPT !.nops = @ + 1], bus, w.bus, hist.nops + 1)
  /\ UNCHANGED <<list, disp, poll, can_rx_mq, dev_ok>>

\* isotp_rtt_send_nonblocking(link, payload, size): the null check, then the
\* payload goes to isotp_send and the engine's result is returned; the call
\* takes no mutex and waits for no event.
isotp_rtt_send_nonblocking(t, h, payload) ==
  /\ thr[t].pc = "idle"
  /\ budget.calls > 0
  /\ IsHandle(h)
  /\ budget' = [budget EXCEPT !.calls = @ - 1]
  /\ LET call == [ThreadIdle EXCEPT !.op = "send_nonblocking", !.link = h, !.payload = payload, !.opid = hist.nops + 1]
     IN IF h = NULL
          THEN /\ thr' = [thr EXCEPT ![t] = [call EXCEPT !.ret = ISOTP_RET_INVAL_ARGS]]
               /\ hist' = [hist EXCEPT !.nops = @ + 1]
               /\ UNCHANGED <<links, engine, bus>>
          ELSE LET w == isotp_send(engine[h], links[h], bus, payload, hist.nops + 1, dev_ok)
               IN /\ engine' = [engine EXCEPT ![h] = w.eng]
                  /\ links' = [links EXCEPT ![h] = w.lnk]
                  /\ bus' = w.bus
                  /\ thr' = [thr EXCEPT ![t] = [call EXCEPT !.engine_ret = w.ret, !.ret = w.ret]]
                  /\ hist' = LogTx([hist EXCEPT !.nops = @ + 1], bus, w.bus, hist.nops + 1)
  /\ UNCHANGED <<list, disp, poll, can_rx_mq, dev_ok>>

(* ----------------------------- isotp_rtt_receive ----------------------- *)

\* A receive that clears the completion bits before it waits.
ReceiveCall_PreClear(t, h, buf_ok, buf_size, out_ok, timeout) ==
  /\ thr[t].pc = "idle"
  /\ budget.calls > 0
  /\ IsHandle(h)
  /\ budget' = [budget EXCEPT !.calls = @ - 1]
  /\ hist' = [hist EXCEPT !.nops = @ + 1]
  /\ LET bad == h = NULL \/ ~buf_ok \/ ~out_ok
     IN /\ thr' = [thr EXCEPT ![t] = [ThreadIdle EXCEPT !.op = "receive", !.link = h, !.buf = Zeros(buf_size), !.buf_size = buf_size, !.timeout = timeout, !.opid = hist.nops + 1, !.pc = IF bad THEN "idle" ELSE "r_wait", !.ret = IF bad THEN RT_EINVAL ELSE "none", !.pre_evt = IF h = NULL THEN {} ELSE links[h].event, !.pre_dones = IF h = NULL THEN 0 ELSE links[h].rx_dones]]
        /\ links' = IF bad THEN links ELSE [links EXCEPT ![h] = rt_event_recv(@, {EVENT_FLAG_RX_DONE, EVENT_FLAG_ERROR}).lnk]
  /\ UNCHANGED <<engine, list, disp, poll, bus, can_rx_mq, dev_ok>>

\* The call begins: the null checks, then the wait.  pre_evt and pre_dones
\* remember the bits posted and the completions signalled so far (history).
\* A receive that does not check payload_buf.
ReceiveCall_NoBufCheck(t, h, buf_ok, buf_size, out_ok, timeout) ==
  /\ thr[t].pc = "idle"
  /\ budget.calls > 0
  /\ IsHandle(h)
  /\ budget' = [budget EXCEPT !.calls = @ - 1]
  /\ hist' = [hist EXCEPT !.nops = @ + 1]
  /\ LET bad == h = NULL \/ ~out_ok
     IN thr' = [thr EXCEPT ![t] = [ThreadIdle EXCEPT !.op = "receive", !.link = h, !.buf_ok = buf_ok, !.out_ok = out_ok, !.buf = Zeros(buf_size), !.buf_size = buf_size, !.timeout = timeout, !.opid = hist.nops + 1, !.pc = IF bad THEN "idle" ELSE "r_wait", !.ret = IF bad THEN RT_EINVAL ELSE "none", !.pre_evt = IF h = NULL THEN {} ELSE links[h].event, !.pre_dones = IF h = NULL THEN 0 ELSE links[h].rx_dones]]
  /\ UNCHANGED <<links, engine, list, disp, poll, bus, can_rx_mq, dev_ok>>

ReceiveCall(t, h, buf_ok, buf_size, out_ok, timeout) ==
  /\ thr[t].pc = "idle"
  /\ budget.calls > 0
  /\ IsHandle(h)
  /\ budget' = [budget EXCEPT !.calls = @ - 1]
  /\ hist' = [hist EXCEPT !.nops = @ + 1]
  /\ LET bad == h = NULL \/ ~buf_ok \/ ~out_ok
     IN thr' = [thr EXCEPT ![t] = [ThreadIdle EXCEPT !.op = "receive", !.link = h, !.buf_ok = buf_ok, !.out_ok = out_ok, !.buf = Zeros(buf_size), !.buf_size = buf_size, !.timeout = timeout, !.opid = hist.nops + 1, !.pc = IF bad THEN "idle" ELSE "r_wait", !.ret = IF bad THEN RT_EINVAL ELSE "none", !.pre_evt = IF h = NULL THEN {} ELSE links[h].event, !.pre_dones = IF h = NULL THEN 0 ELSE links[h].rx_dones]]
  /\ UNCHANGED <<links, engine, list, disp, poll, bus, can_rx_mq, dev_ok>>

\* A wait that returns on RX_DONE and leaves the bit posted.
ReceiveWaitDone_NoClear(t) ==
  /\ thr[t].pc = "r_wait"
  /\ links[thr[t].link].state = "live"
  /\ links[thr[t].link].event \cap {EVENT_FLAG_RX_DONE, EVENT_FLAG_ERROR} # {}
  /\ LET h == thr[t].link
         r == [lnk |-> links[h], recved |-> links[h].event \cap {EVENT_FLAG_RX_DONE, EVENT_FLAG_ERROR}]
     IN /\ links' = [links EXCEPT ![h] = IF EVENT_FLAG_RX_DONE \in r.recved THEN [r.lnk EXCEPT !.rx_taken = r.lnk.rx_dones] ELSE r.lnk]
        /\ thr' = IF EVENT_FLAG_RX_DONE \in r.recved
                    THEN [thr EXCEPT ![t].pc = "r_copy", ![t].recved_evt = r.recved, ![t].seen_buf = links[h].rx_buf, ![t].seen_size = links[h].rx_actual_size, ![t].seen_dones = links[h].rx_dones]
                    ELSE [thr EXCEPT ![t].pc = "idle", ![t].recved_evt = r.recved, ![t].out_size = 0, ![t].ret = RT_ERROR]
  /\ UNCHANGED <<engine, list, disp, poll, bus, can_rx_mq, dev_ok, budget, hist>>

\* rt_event_recv(RX_DONE | ERROR, timeout) returns RT_EOK.
ReceiveWaitDone(t) ==
  /\ thr[t].pc = "r_wait"
  /\ links[thr[t].link].state = "live"
  /\ links[thr[t].link].event \cap {EVENT_FLAG_RX_DONE, EVENT_FLAG_ERROR} # {}
  /\ LET h == thr[t].link
         r == rt_event_recv(links[h], {EVENT_FLAG_RX_DONE, EVENT_FLAG_ERROR})
     IN /\ links' = [links EXCEPT ![h] = IF EVENT_FLAG_RX_DONE \in r.recved THEN [r.lnk EXCEPT !.rx_taken = r.lnk.rx_dones] ELSE r.lnk]
        /\ thr' = IF EVENT_FLAG_RX_DONE \in r.recved
                    THEN [thr EXCEPT ![t].pc = "r_copy", ![t].recved_evt = r.recved, ![t].seen_buf = links[h].rx_buf, ![t].seen_size = links[h].rx_actual_size, ![t].seen_dones = links[h].rx_dones]
                    ELSE [thr EXCEPT ![t].pc = "idle", ![t].recved_evt = r.recved, ![t].out_size = 0, ![t].ret = RT_ERROR]
  /\ UNCHANGED <<engine, list, disp, poll, bus, can_rx_mq, dev_ok, budget, hist>>

\* A timeout path that returns without writing *out_size.
ReceiveWaitTimeout_NoOutSize(t) ==
  /\ thr[t].pc = "r_wait"
  /\ links[thr[t].link].state = "live"
  /\ thr[t].timeout # RT_WAITING_FOREVER
  /\ links[thr[t].link].event \cap {EVENT_FLAG_RX_DONE, EVENT_FLAG_ERROR} = {}
  /\ thr' = [thr EXCEPT ![t].pc = "idle", ![t].ret = RT_ETIMEOUT]
  /\ UNCHANGED <<links, engine, list, disp, poll, bus, can_rx_mq, dev_ok, budget, hist>>

\* rt_event_recv(RX_DONE | ERROR, timeout) times out.
ReceiveWaitTimeout(t) ==
  /\ thr[t].pc = "r_wait"
  /\ links[thr[t].link].state = "live"
  /\ thr[t].timeout # RT_WAITING_FOREVER
  /\ links[thr[t].link].event \cap {EVENT_FLAG_RX_DONE, EVENT_FLAG_ERROR} = {}
  /\ thr' = [thr EXCEPT ![t].pc = "idle", ![t].out_size = 0, ![t].ret = RT_ETIMEOUT]
  /\ UNCHANGED <<links, engine, list, disp, poll, bus, can_rx_mq, dev_ok, budget, hist>>

\* A copy-out that fills a caller buffer that is too small as far as it goes.
ReceiveCopy_Partial(t) ==
  /\ thr[t].pc = "r_copy"
  /\ links[thr[t].link].state = "live"
  /\ LET lnk == links[thr[t].link]
         copy_size == lnk.rx_actual_size
     IN thr' = IF copy_size > thr[t].buf_size
                 THEN [thr EXCEPT ![t].pc = "idle", ![t].buf = Memcpy(@, lnk.rx_buf, thr[t].buf_size), ![t].out_size = 0, ![t].ret = RT_ENOMEM, ![t].returned_at = hist.nops]
                 ELSE [thr EXCEPT ![t].pc = "idle", ![t].buf = Memcpy(@, lnk.rx_buf, copy_size), ![t].out_size = copy_size, ![t].ret = IF lnk.rx_truncated THEN RT_EFULL ELSE RT_EOK, ![t].returned_at = hist.nops]
  /\ UNCHANGED <<links, engine, list, disp, poll, bus, can_rx_mq, dev_ok, budget, hist>>

\* A copy-out that does not look at the truncation flag.
ReceiveCopy_IgnoreTruncated(t) ==
  /\ thr[t].pc = "r_copy"
  /\ links[thr[t].link].state = "live"
  /\ LET lnk == links[thr[t].link]
         copy_size == lnk.rx_actual_size
     IN thr' = IF copy_size > thr[t].buf_size
                 THEN [thr EXCEPT ![t].pc = "idle", ![t].out_size = 0, ![t].ret = RT_ENOMEM, ![t].returned_at = hist.nops]
                 ELSE [thr EXCEPT ![t].pc = "idle", ![t].buf = Memcpy(@, lnk.rx_buf, copy_size), ![t].out_size = copy_size, ![t].ret = RT_EOK, ![t].returned_at = hist.nops]
  /\ UNCHANGED <<links, engine, list, disp, poll, bus, can_rx_mq, dev_ok, budget, hist>>

\* RX_DONE was received: the size check and the copy out of the link's buffer.
ReceiveCopy(t) ==
  /\ thr[t].pc = "r_copy"
  /\ links[thr[t].link].state = "live"
  /\ LET lnk == links[thr[t].link]
         copy_size == lnk.rx_actual_size
     IN thr' = IF copy_size > thr[t].buf_size
                 THEN [thr EXCEPT ![t].pc = "idle", ![t].out_size = 0, ![t].ret = RT_ENOMEM, ![t].returned_at = hist.nops]
                 ELSE [thr EXCEPT ![t].pc = "idle", ![t].buf = Memcpy(@, lnk.rx_buf, copy_size), ![t].out_size = copy_size, ![t].ret = IF lnk.rx_truncated THEN RT_EFULL ELSE RT_EOK, ![t].returned_at = hist.nops]
  /\ UNCHANGED <<links, engine, list, disp, poll, bus, can_rx_mq, dev_ok, budget, hist>>

\* A thread inside a call on a link that isotp_rtt_destroy has freed reads
\* freed memory at its next step; what it does from there is not defined.
ThreadUseAfterFree(t) ==
  /\ thr[t].pc \in InCall
  /\ links[thr[t].link].state = "freed"
  /\ thr' = [thr EXCEPT ![t].pc = "undefined"]
  /\ hist' = [hist EXCEPT !.uaf = TRUE]
  /\ UNCHANGED <<links, engine, list, disp, poll, bus, can_rx_mq, dev_ok, budget>>

(* ------------------- isotp_rtt_on_can_msg_received --------------------- *)

NoMsg == CanMsg(0, "STD", "DTR", "FC", 0, <<>>)

\* rt_list_for_each_entry_safe: the step to the cached next entry, whose own
\* next pointer is read and cached in turn; at the head the loop is over.
ListAdvance(c, done) == IF c.n = HEAD THEN [c EXCEPT !.pc = done, !.pos = HEAD] ELSE [c EXCEPT !.pc = "scan", !.pos = c.n, !.n = list.next[c.n]]

\* The loop's initialisation: the first entry and its cached next.
ListFirst(c, done) == ListAdvance([c EXCEPT !.n = list.next[HEAD]], done)

\* The links isotp_rtt_destroy has returned for.
Freed == {h \in Handles : links[h].state = "freed"}

\* A consumer thread that takes the newest frame of the queue.
DispatchReceive_Newest ==
  /\ disp.pc = "idle"
  /\ can_rx_mq # <<>>
  /\ can_rx_mq' = SubSeq(can_rx_mq, 1, Len(can_rx_mq) - 1)
  /\ disp' = ListFirst([disp EXCEPT !.msg = can_rx_mq[Len(can_rx_mq)], !.fwd = <<>>, !.gone = Freed], "idle")
  /\ hist' = [hist EXCEPT !.handed = Append(@, can_rx_mq[Len(can_rx_mq)])]
  /\ UNCHANGED <<links, engine, list, thr, poll, bus, dev_ok, budget>>

\* can_rx_consumer_thread_entry: rt_mq_recv returns a frame and
\* isotp_rtt_on_can_msg_received starts to iterate the list.
DispatchReceive ==
  /\ disp.pc = "idle"
  /\ can_rx_mq # <<>>
  /\ can_rx_mq' = Tail(can_rx_mq)
  /\ disp' = ListFirst([disp EXCEPT !.msg = Head(can_rx_mq), !.fwd = <<>>, !.gone = Freed], "idle")
  /\ hist' = [hist EXCEPT !.handed = Append(@, Head(can_rx_mq))]
  /\ UNCHANGED <<links, engine, list, thr, poll, bus, dev_ok, budget>>

\* One entry of the list: on a matching identifier the consumer thread
\* enters isotp_on_can_message, otherwise it goes on to the next entry.
\* A dispatcher that feeds every link, whatever identifier it listens on.
DispatchVisit_Any ==
  /\ disp.pc = "scan"
  /\ LET h == disp.pos
         w == isotp_on_can_message(engine[h], links[h], bus, disp.msg, dev_ok)
     IN /\ engine' = [engine EXCEPT ![h] = w.eng]
        /\ links' = [links EXCEPT ![h] = w.lnk]
        /\ bus' = w.bus
        /\ disp' = [disp EXCEPT !.pc = "in_engine", !.fwd = Append(@, h)]
  /\ UNCHANGED <<list, thr, poll, can_rx_mq, dev_ok, budget, hist>>

DispatchVisit ==
  /\ disp.pc = "scan"
  /\ LET h == disp.pos
     IN IF links[h].recv_arbitration_id = disp.msg.id
          THEN LET w == isotp_on_can_message(engine[h], links[h], bus, disp.msg, dev_ok)
               IN /\ engine' = [engine EXCEPT ![h] = w.eng]
                  /\ links' = [links EXCEPT ![h] = w.lnk]
                  /\ bus' = w.bus
                  /\ disp' = [disp EXCEPT !.pc = "in_engine", !.fwd = Append(@, h)]
          ELSE /\ disp' = ListAdvance(disp, "idle")
               /\ UNCHANGED <<links, engine, bus>>
  /\ UNCHANGED <<list, thr, poll, can_rx_mq, dev_ok, budget, hist>>

\* A dispatcher that stops at the first matching link.
DispatchEngineReturn_Break ==
  /\ disp.pc = "in_engine"
  /\ disp' = [disp EXCEPT !.pc = "idle", !.pos = HEAD]
  /\ UNCHANGED <<links, engine, list, thr, poll, bus, can_rx_mq, dev_ok, budget, hist>>

\* isotp_on_can_message has returned; no break: on to the next entry.
DispatchEngineReturn ==
  /\ disp.pc = "in_engine"
  /\ disp' = ListAdvance(disp, "idle")
  /\ UNCHANGED <<links, engine, list, thr, poll, bus, can_rx_mq, dev_ok, budget, hist>>

(* --------------------------- _poll_thread_entry ------------------------ *)

\* The poll thread in rt_thread_mdelay.  Within an iteration, visited lists
\* the links isotp_poll was called on, reg0 is the registry and gone the
\* destroyed links as they were when the iteration began (history only).
NoPoll == [pc |-> "sleep", pos |-> HEAD, n |-> HEAD, visited |-> <<>>, reg0 |-> {}, gone |-> {}]

\* rt_thread_mdelay is over: the poll thread starts to iterate the list.
PollStart ==
  /\ poll.pc = "sleep"
  /\ poll' = LET c == ListFirst([poll EXCEPT !.reg0 = Registered, !.gone = Freed], "sleep") IN IF c.pc = "sleep" THEN NoPoll ELSE c
  /\ UNCHANGED <<links, engine, list, thr, disp, bus, can_rx_mq, dev_ok, budget, hist>>

\* One entry of the list: the poll thread enters isotp_poll.
PollVisit(bs_expired, cr_expired) ==
  /\ poll.pc = "scan"
  /\ links[poll.pos].state = "live"
  /\ LET h == poll.pos
         w == isotp_poll(engine[h], links[h], bus, bs_expired, cr_expired, dev_ok)
     IN /\ engine' = [engine EXCEPT ![h] = w.eng]
        /\ links' = [links EXCEPT ![h] = w.lnk]
        /\ bus' = w.bus
        /\ poll' = [poll EXCEPT !.pc = "in_engine", !.visited = Append(@, h)]
        /\ hist' = LogTx(hist, bus, w.bus, engine[h].send_op)
  /\ UNCHANGED <<list, thr, disp, can_rx_mq, dev_ok, budget>>

\* A poll loop that leaves the list after its first entry.
PollEngineReturn_Break ==
  /\ poll.pc = "in_engine"
  /\ poll' = NoPoll
  /\ UNCHANGED <<links, engine, list, thr, disp, bus, can_rx_mq, dev_ok, budget, hist>>

\* isotp_poll has returned: on to the cached next entry.
PollEngineReturn ==
  /\ poll.pc = "in_engine"
  /\ poll' = LET c == ListAdvance(poll, "sleep") IN IF c.pc = "sleep" THEN NoPoll ELSE c
  /\ UNCHANGED <<links, engine, list, thr, disp, bus, can_rx_mq, dev_ok, budget, hist>>

\* The entry the poll thread moved to was freed by isotp_rtt_destroy while
\* it was cached as the next one: isotp_poll reads freed memory.
PollUseAfterFree ==
  /\ poll.pc = "scan"
  /\ links[poll.pos].state = "freed"
  /\ poll' = [poll EXCEPT !.pc = "undefined"]
  /\ hist' = [hist EXCEPT !.uaf = TRUE]
  /\ UNCHANGED <<links, engine, list, thr, disp, bus, can_rx_mq, dev_ok, budget>>

(* ------------------------ interrupt and environment -------------------- *)

\* An ISR that hands the frame to the engine of a listening link itself
\* instead of queueing it.
can_rx_callback_Forward ==
  /\ bus # <<>>
  /\ LET f == Head(bus)
         m == {h \in Registered : links[h].recv_arbitration_id = f.id}
     IN IF m = {}
          THEN /\ bus' = Tail(bus)
               /\ UNCHANGED <<links, engine>>
          ELSE LET h == CHOOSE x \in m : TRUE
                   w == isotp_on_can_message(engine[h], links[h], Tail(bus), f, dev_ok)
               IN /\ engine' = [engine EXCEPT ![h] = w.eng]
                  /\ links' = [links EXCEPT ![h] = w.lnk]
                  /\ bus' = w.bus
  /\ UNCHANGED <<list, thr, disp, poll, can_rx_mq, dev_ok, budget, hist>>

\* An ISR that makes room in a full queue by discarding its oldest frame.
can_rx_callback_Overwrite ==
  /\ bus # <<>>
  /\ bus' = Tail(bus)
  /\ can_rx_mq' = IF Len(can_rx_mq) < CAN_RX_MQ_SIZE THEN Append(can_rx_mq, Head(bus)) ELSE Append(Tail(can_rx_mq), Head(bus))
  /\ hist' = [hist EXCEPT !.accepted = Append(@, Head(bus))]
  /\ UNCHANGED <<links, engine, list, thr, disp, poll, dev_ok, budget>>

\* can_rx_callback (ISR): the frame is read from the device and posted to
\* the message queue; rt_mq_send does not block, a full queue drops it.
can_rx_callback ==
  /\ bus # <<>>
  /\ bus' = Tail(bus)
  /\ can_rx_mq' = IF Len(can_rx_mq) < CAN_RX_MQ_SIZE THEN Append(can_rx_mq, Head(bus)) ELSE can_rx_mq
  /\ hist' = IF Len(can_rx_mq) < CAN_RX_MQ_SIZE THEN [hist EXCEPT !.accepted = Append(@, Head(bus))] ELSE hist
  /\ UNCHANGED <<links, engine, list, thr, disp, poll, dev_ok, budget>>

\* Another node puts a frame on the bus.
EnvFrame(f) ==
  /\ budget.env > 0
  /\ budget' = [budget EXCEPT !.env = @ - 1]
  /\ bus' = Append(bus, f)
  /\ UNCHANGED <<links, engine, list, thr, disp, poll, can_rx_mq, dev_ok, hist>>

\* The CAN device starts or stops accepting frames (rt_device_write's result).
DeviceFault ==
  /\ budget.faults > 0
  /\ budget' = [budget EXCEPT !.faults = @ - 1]
  /\ dev_ok' = ~dev_ok
  /\ UNCHANGED <<links, engine, list, thr, disp, poll, bus, can_rx_mq, hist>>

(* ---------------------------- specifications --------------------------- *)

Timeouts == {FINITE, RT_WAITING_FOREVER}

\* One payload of every length: the send path does not look at the bytes.
SendPayloads == {[i \in 1..n |-> IF i % 2 = 1 THEN 1 ELSE 2] : n \in 1..MaxLen}

\* The arguments of the example's client and server links.
ClientArgs == [can_dev |-> DEV, send_id |-> 1, recv_id |-> 2, send_buf_size |-> MaxLen, recv_buf_size |-> MaxLen]
ServerArgs == [can_dev |-> DEV, send_id |-> 2, recv_id |-> 1, send_buf_size |-> MaxLen, recv_buf_size |-> MaxLen]

\* A flow-control frame from the peer of the client link.
PeerFlowControl == CanMsg(2, "STD", "DTR", "FC", 0, <<>>)

EmptyList == [next |-> [n \in Nodes |-> n], prev |-> [n \in Nodes |-> n]]

NoBudget == [creates |-> 0, destroys |-> 0, calls |-> 0, env |-> 0, faults |-> 0, nomem |-> 0]

\* The program after start: no link, every thread idle, nothing in flight.
InitProgram ==
  /\ links = [h \in Handles |-> NoLink]
  /\ engine = [h \in Handles |-> NoEngine]
  /\ list = EmptyList
  /\ thr = [t \in Threads |-> ThreadIdle]
  /\ disp = [pc |-> "idle", msg |-> NoMsg, pos |-> HEAD, n |-> HEAD, fwd |-> <<>>, gone |-> {}]
  /\ poll = NoPoll
  /\ bus = <<>>
  /\ can_rx_mq = <<>>
  /\ dev_ok = TRUE
  /\ hist = [nops |-> 0, created |-> NULL, uaf |-> FALSE, txlog |-> <<>>, reg |-> <<>>, accepted |-> <<>>, handed |-> <<>>, arg_dev |-> DEV, tick |-> 0]

\* The program after isotp_rtt_create(a) returned handle 1.
InitOneLink(a) ==
  /\ links = [h \in Handles |-> IF h = 1 THEN NewLink(a, TRUE) ELSE NoLink]
  /\ engine = [h \in Handles |-> IF h = 1 THEN isotp_init_link(a.send_id, a.send_buf_size) ELSE NoEngine]
  /\ list = rt_list_insert_after(EmptyList, HEAD, 1)
  /\ thr = [t \in Threads |-> ThreadIdle]
  /\ disp = [pc |-> "idle", msg |-> NoMsg, pos |-> HEAD, n |-> HEAD, fwd |-> <<>>, gone |-> {}]
  /\ poll = NoPoll
  /\ bus = <<>>
  /\ can_rx_mq = <<>>
  /\ dev_ok = TRUE
  /\ hist = [nops |-> 0, created |-> 1, uaf |-> FALSE, txlog |-> <<>>, reg |-> <<1>>, accepted |-> <<>>, handed |-> <<>>, arg_dev |-> DEV, tick |-> 0]

SendStep(t) ==
  \/ SendTake(t)
  \/ SendClear(t)
  \/ SendEngine(t)
  \/ SendEngineReturn(t)
  \/ SendWaitDone(t)
  \/ SendWaitTimeout(t)
  \/ SendRelease(t)

ReceiveStep(t) ==
  \/ ReceiveWaitDone(t)
  \/ ReceiveWaitTimeout(t)
  \/ ReceiveCopy(t)

DispatchStep ==
  \/ DispatchReceive
  \/ DispatchVisit
  \/ DispatchEngineReturn

PollStep ==
  \/ PollStart
  \/ \E bs \in BOOLEAN, cr \in BOOLEAN : PollVisit(bs, cr)
  \/ PollEngineReturn

(* Senders on one link: the client link exists, application threads call   *)
(* isotp_rtt_send on it (or with a null handle), the peer answers with     *)
(* flow control at some time or never, the device may stop accepting       *)
(* frames, and the consumer and poll threads run as scheduled.             *)

InitSend ==
  /\ InitOneLink(ClientArgs)
  /\ budget = [NoBudget EXCEPT !.calls = MaxCalls, !.env = MaxEnvFrames, !.faults = MaxFaults]

NextSend ==
  \/ \E t \in Threads, h \in {1, NULL}, p \in SendPayloads, tm \in Timeouts : SendCall(t, h, p, tm)
  \/ \E t \in Threads : SendStep(t)
  \/ DispatchStep
  \/ PollStep
  \/ can_rx_callback
  \/ EnvFrame(PeerFlowControl)
  \/ DeviceFault

SpecSend == InitSend /\ [][NextSend]_vars

\* Links are created and destroyed while frames of every kind and
\* identifier arrive and are dispatched; as the header demands, no create
\* or destroy runs while the dispatcher walks the list.
InitDispatch ==
  /\ InitProgram
  /\ budget = [NoBudget EXCEPT !.creates = MaxLinks, !.destroys = MaxDestroys, !.env = MaxEnvFrames]

NextDispatch ==
  \/ \E a \in CreateArgs : isotp_rtt_create(a)
  \/ \E h \in Handles : isotp_rtt_destroy(h)
  \/ \E f \in EnvFrames : EnvFrame(f)
  \/ can_rx_callback
  \/ DispatchStep

SpecDispatch == InitDispatch /\ [][NextDispatch]_vars

\* The capacities of a link's buffers.
Capacities == 1..MaxLen

\* Link 1 sends on the identifier link 2 listens on and the other way
\* round, with send and receive buffers of every capacity.
InitPair(ca, cb) ==
  /\ links = [h \in Handles |-> IF h = 1 THEN NewLink([ClientArgs EXCEPT !.send_buf_size = ca], TRUE) ELSE IF h = 2 THEN NewLink([ServerArgs EXCEPT !.recv_buf_size = cb], TRUE) ELSE NoLink]
  /\ engine = [h \in Handles |-> IF h = 1 THEN isotp_init_link(1, ca) ELSE IF h = 2 THEN isotp_init_link(2, MaxLen) ELSE NoEngine]
  /\ list = rt_list_insert_after(rt_list_insert_after(EmptyList, HEAD, 1), HEAD, 2)
  /\ thr = [t \in Threads |-> ThreadIdle]
  /\ disp = [pc |-> "idle", msg |-> NoMsg, pos |-> HEAD, n |-> HEAD, fwd |-> <<>>, gone |-> {}]
  /\ poll = NoPoll
  /\ bus = <<>>
  /\ can_rx_mq = <<>>
  /\ dev_ok = TRUE
  /\ hist = [nops |-> 0, created |-> 2, uaf |-> FALSE, txlog |-> <<>>, reg |-> <<1, 2>>, accepted |-> <<>>, handed |-> <<>>, arg_dev |-> DEV, tick |-> 0]

\* Thread 1 sends one payload on link 1, thread 2 receives on link 2, and
\* the ISR, the consumer thread and the poll thread carry the frames.
InitRoundTrip ==
  /\ \E ca \in Capacities, cb \in Capacities : InitPair(ca, cb)
  /\ budget = [NoBudget EXCEPT !.calls = MaxCalls]

\* The one isotp_rtt_send of thread 1 on link 1.
SendOnce(p, tm) == thr[1].op = "none" /\ SendCall(1, 1, p, tm)

NextRoundTrip ==
  \/ \E p \in Payloads \ {<<>>}, tm \in Timeouts : SendOnce(p, tm)
  \/ \E bs \in 0..MaxLen, tm \in Timeouts : ReceiveCall(2, 2, TRUE, bs, TRUE, tm)
  \/ SendStep(1)
  \/ ReceiveStep(2)
  \/ DispatchStep
  \/ PollStep
  \/ can_rx_callback

SpecRoundTrip == InitRoundTrip /\ [][NextRoundTrip]_vars

\* The bound on the frames the peer sends to a receiving link.
MaxRxFrames == 2

\* Frames of the peer of the server link: two single frames, and the first
\* and the consecutive frame of a two-byte message.
RxFrames == {CanMsg(1, "STD", "DTR", k[1], k[2], k[3]) : k \in {<<"SF", 1, <<1>>>>, <<"SF", 1, <<2>>>>, <<"FF", 2, <<1>>>>, <<"CF", 0, <<2>>>>}}

\* One server link; application threads receive on it while the peer's
\* frames come in through the ISR and the consumer thread.
InitReceive ==
  /\ InitOneLink(ServerArgs)
  /\ budget = [NoBudget EXCEPT !.calls = MaxCalls, !.env = MaxRxFrames]

NextReceive ==
  \/ \E t \in Threads, bs \in 0..MaxLen, tm \in Timeouts : ReceiveCall(t, 1, TRUE, bs, TRUE, tm)
  \/ \E t \in Threads : ReceiveStep(t)
  \/ \E f \in RxFrames : EnvFrame(f)
  \/ can_rx_callback
  \/ DispatchStep

SpecReceive == InitReceive /\ [][NextReceive]_vars

\* Links are created and destroyed while frames arrive and are dispatched
\* and the poll thread runs; the poll thread's iteration is not covered by
\* the header's precondition and may overlap a destroy.
InitTeardown ==
  /\ InitProgram
  /\ budget = [NoBudget EXCEPT !.creates = MaxLinks - 1, !.destroys = MaxDestroys, !.env = MaxEnvFrames]

NextTeardown ==
  \/ \E a \in CreateArgs : isotp_rtt_create(a)
  \/ \E h \in Handles : isotp_rtt_destroy(h)
  \/ \E id \in ArbIds : EnvFrame(CanMsg(id, "STD", "DTR", "SF", 1, <<1>>))
  \/ can_rx_callback
  \/ DispatchStep
  \/ PollStep
  \/ PollUseAfterFree

SpecTeardown == InitTeardown /\ [][NextTeardown]_vars

\* Links are created with a heap that can run out, for the link itself or
\* for its mutex, and destroyed, while frames arrive and are dispatched.
InitCreate ==
  /\ InitProgram
  /\ budget = [NoBudget EXCEPT !.creates = MaxLinks + 1, !.destroys = MaxDestroys, !.env = MaxEnvFrames, !.nomem = MaxFaults]

NextCreate ==
  \/ \E a \in CreateArgs : isotp_rtt_create(a)
  \/ \E h \in Handles : isotp_rtt_destroy(h)
  \/ \E id \in ArbIds : EnvFrame(CanMsg(id, "STD", "DTR", "SF", 1, <<1>>))
  \/ can_rx_callback
  \/ DispatchStep

SpecCreate == InitCreate /\ [][NextCreate]_vars

\* The poll thread under fair scheduling: links are created, frames may
\* arrive and be dispatched or not, and the poll thread, once it can take a
\* step, is eventually scheduled.
InitPoll ==
  /\ InitProgram
  /\ budget = [NoBudget EXCEPT !.creates = MaxLinks - 1, !.env = MaxEnvFrames]

NextPoll ==
  \/ \E a \in {ClientArgs, ServerArgs} : isotp_rtt_create(a)
  \/ EnvFrame(PeerFlowControl)
  \/ can_rx_callback
  \/ DispatchStep
  \/ PollStep

SpecPoll == InitPoll /\ [][NextPoll]_vars /\ WF_vars(PollStep)

\* The receive interrupt against the consumer thread: more frames arrive
\* for the server link than the message queue holds, and the consumer
\* thread dispatches them as it is scheduled.
InitIsr ==
  /\ InitOneLink(ServerArgs)
  /\ budget = [NoBudget EXCEPT !.env = CAN_RX_MQ_SIZE + 1]

NextIsr ==
  \/ \E f \in RxFrames : EnvFrame(f)
  \/ can_rx_callback
  \/ DispatchStep

SpecIsr == InitIsr /\ [][NextIsr]_vars

\* Calls with invalid arguments: threads call isotp_rtt_send with a null
\* handle and isotp_rtt_receive with every combination of null and valid
\* arguments on the server link, while frames arrive and are dispatched.
InitArgs ==
  /\ InitOneLink(ServerArgs)
  /\ budget = [NoBudget EXCEPT !.calls = MaxCalls, !.env = MaxEnvFrames]

NextArgs ==
  \/ \E t \in Threads, p \in SendPayloads, tm \in Timeouts : SendCall(t, NULL, p, tm)
  \/ \E t \in Threads, h \in {1, NULL}, buf_ok \in BOOLEAN, out_ok \in BOOLEAN, tm \in Timeouts : ReceiveCall(t, h, buf_ok, MaxLen, out_ok, tm)
  \/ \E t \in Threads : ReceiveStep(t)
  \/ \E f \in RxFrames : EnvFrame(f)
  \/ can_rx_callback
  \/ DispatchStep

SpecArgs == InitArgs /\ [][NextArgs]_vars

\* Fire-and-forget senders: threads call isotp_rtt_send_nonblocking on the
\* client link (or with a null handle), the peer answers with flow control
\* at some time or never, the device may stop accepting frames, and the
\* consumer and poll threads run as scheduled.
InitNonblocking ==
  /\ InitOneLink(ClientArgs)
  /\ budget = [NoBudget EXCEPT !.calls = MaxCalls, !.env = MaxEnvFrames, !.faults = MaxFaults]

NextNonblocking ==
  \/ \E t \in Threads, h \in {1, NULL}, p \in SendPayloads \cup {Zeros(MaxLen + 1)} : isotp_rtt_send_nonblocking(t, h, p)
  \/ DispatchStep
  \/ PollStep
  \/ can_rx_callback
  \/ EnvFrame(PeerFlowControl)
  \/ DeviceFault

SpecNonblocking == InitNonblocking /\ [][NextNonblocking]_vars

\* Both directions on one link: threads send and receive on the server
\* link while single frames for it arrive and are dispatched.
InitDuplex ==
  /\ InitOneLink(ServerArgs)
  /\ budget = [NoBudget EXCEPT !.calls = MaxCalls, !.env = MaxEnvFrames]

NextDuplex ==
  \/ \E t \in Threads, p \in SendPayloads, tm \in Timeouts : SendCall(t, 1, p, tm)
  \/ \E t \in Threads, bs \in {1, MaxLen}, tm \in Timeouts : ReceiveCall(t, 1, TRUE, bs, TRUE, tm)
  \/ \E t \in Threads : SendStep(t)
  \/ \E t \in Threads : ReceiveStep(t)
  \/ \E d \in Bytes : EnvFrame(CanMsg(1, "STD", "DTR", "SF", 1, <<d>>))
  \/ can_rx_callback
  \/ DispatchStep

SpecDuplex == InitDuplex /\ [][NextDuplex]_vars

\* Senders on one link under fair scheduling: every thread inside
\* isotp_rtt_send and the poll thread get to run, and a finite timeout
\* elapses; the peer never answers, so a payload of several frames is never
\* completed.
InitSendFair ==
  /\ InitOneLink(ClientArgs)
  /\ budget = [NoBudget EXCEPT !.calls = MaxCalls]

NextSendFair ==
  \/ \E t \in Threads, p \in SendPayloads, tm \in Timeouts : SendCall(t, 1, p, tm)
  \/ \E t \in Threads : SendStep(t)
  \/ PollStep

SpecSendFair == InitSendFair /\ [][NextSendFair]_vars /\ WF_vars(PollStep) /\ \A t \in Threads : WF_vars(SendStep(t))

\* The rx-completion callback on its own: a link of any capacity, with any
\* event bits posted, gets completions of any size from the engine. Sizes
\* and capacities are taken around 0, the capacity and 2^16; the buffer's
\* bytes, which the callback does not touch, are left out.
MaxCompletions == 2
UINT16_MAX == 65535
RxCapacities == {0, 1, 2, UINT16_MAX - 1, UINT16_MAX}
RxSizes == {0, 1, 2, 3, UINT16_MAX - 1, UINT16_MAX, UINT16_MAX + 1, UINT16_MAX + 2, UINT16_MAX + 3, 2 * (UINT16_MAX + 1) + 1, 2147483647}

InitRxDone ==
  /\ \E cap \in RxCapacities, ev \in SUBSET {EVENT_FLAG_TX_DONE, EVENT_FLAG_RX_DONE} :
       links = [h \in Handles |-> IF h = 1 THEN [NewLink(ServerArgs, TRUE) EXCEPT !.rx_buf = <<>>, !.rx_buf_size = cap, !.event = ev] ELSE NoLink]
  /\ engine = [h \in Handles |-> IF h = 1 THEN isotp_init_link(ServerArgs.send_id, ServerArgs.send_buf_size) ELSE NoEngine]
  /\ list = rt_list_insert_after(EmptyList, HEAD, 1)
  /\ thr = [t \in Threads |-> ThreadIdle]
  /\ disp = [pc |-> "idle", msg |-> NoMsg, pos |-> HEAD, n |-> HEAD, fwd |-> <<>>, gone |-> {}]
  /\ poll = NoPoll
  /\ bus = <<>>
  /\ can_rx_mq = <<>>
  /\ dev_ok = TRUE
  /\ budget = [NoBudget EXCEPT !.env = MaxCompletions]
  /\ hist = [nops |-> 0, created |-> 1, uaf |-> FALSE, txlog |-> <<>>, reg |-> <<1>>, accepted |-> <<>>, handed |-> <<>>, arg_dev |-> DEV, tick |-> 0]

\* The engine has assembled a message of the given size and calls the
\* rx-completion callback of link 1.
RxCompletion(size) ==
  /\ budget.env > 0
  /\ budget' = [budget EXCEPT !.env = @ - 1]
  /\ links' = [links EXCEPT ![1] = _isotp_rtt_rx_done_cb(links[1], size)]
  /\ UNCHANGED <<engine, list, thr, disp, poll, bus, can_rx_mq, dev_ok, hist>>

NextRxDone == \E size \in RxSizes : RxCompletion(size)

SpecRxDone == InitRxDone /\ [][NextRxDone]_vars

\* Everything that can go wrong on one link: threads send and receive on
\* the server link, a message or a flow control arrives for it or not, the device
\* may stop accepting frames, and the engine's timeouts expire in the poll
\* thread.
InitFaulty ==
  /\ InitOneLink(ServerArgs)
  /\ budget = [NoBudget EXCEPT !.calls = MaxCalls, !.env = MaxEnvFrames, !.faults = MaxFaults]

NextFaulty ==
  \/ \E t \in Threads, p \in SendPayloads, tm \in Timeouts : SendCall(t, 1, p, tm)
  \/ \E t \in Threads, tm \in Timeouts : ReceiveCall(t, 1, TRUE, MaxLen, TRUE, tm)
  \/ \E t \in Threads : SendStep(t)
  \/ \E t \in Threads : ReceiveStep(t)
  \/ \E k \in {<<"SF", 1, <<1>>>>, <<"FC", 0, <<>>>>} : EnvFrame(CanMsg(1, "STD", "DTR", k[1], k[2], k[3]))
  \/ can_rx_callback
  \/ DispatchStep
  \/ PollStep
  \/ DeviceFault

SpecFaulty == InitFaulty /\ [][NextFaulty]_vars

\* A link is destroyed while application threads call isotp_rtt_send and
\* isotp_rtt_receive on it: no call begins on a destroyed handle, but a call
\* that began before the destroy may still be inside the adapter.
InitBusyDestroy ==
  /\ InitOneLink(ClientArgs)
  /\ budget = [NoBudget EXCEPT !.calls = MaxCalls, !.destroys = MaxDestroys]

OnLiveLink(t) == thr[t].link # NULL /\ links[thr[t].link].state = "live"

NextBusyDestroy ==
  \/ \E t \in Threads, p \in SendPayloads, tm \in Timeouts : SendCall(t, 1, p, tm)
  \/ \E t \in Threads, tm \in Timeouts : ReceiveCall(t, 1, TRUE, MaxLen, TRUE, tm)
  \/ \E t \in Threads : OnLiveLink(t) /\ SendStep(t)
  \/ \E t \in Threads : OnLiveLink(t) /\ ReceiveStep(t)
  \/ isotp_rtt_destroy(1)
  \/ \E t \in Threads : ThreadUseAfterFree(t)

SpecBusyDestroy == InitBusyDestroy /\ [][NextBusyDestroy]_vars

\* The transmit callback on its own: the engine asks for frames of every
\* identifier width and length on a link created with either identifier
\* kind and frame kind, on a context without a device and on no context at
\* all, while the device accepts the write or refuses it.
CAN_MAX_DLEN == 8
CanIds == {0, 1, 2047, 2048, 536870911}
FrameData == {<<>>, <<1>>, <<2, 1>>, [i \in 1..CAN_MAX_DLEN |-> i]}

\* The link isotp_rtt_create builds for the given send_ide and send_rtr.
ConfiguredLink(a, ide, rtr) == [NewLink(a, TRUE) EXCEPT !.send_ide = ide, !.send_rtr = rtr]

InitTransmit ==
  /\ InitProgram
  /\ budget = [NoBudget EXCEPT !.calls = MaxCalls, !.faults = MaxFaults]

\* The context pointer the engine passes is set up: null, a link without a
\* device, or a link as created.
TransmitSetup ==
  /\ hist.created = NULL
  /\ \E lnk \in {NoLink} \cup {ConfiguredLink(a, ide, rtr) : a \in {ClientArgs, [ClientArgs EXCEPT !.can_dev = NULL]}, ide \in {"STD", "EXT"}, rtr \in {"DTR", "RTR"}} :
       links' = [links EXCEPT ![1] = lnk]
  /\ hist' = [hist EXCEPT !.created = 1]
  /\ UNCHANGED <<engine, list, thr, disp, poll, bus, can_rx_mq, dev_ok, budget>>

\* The engine calls the transmit callback with one frame on behalf of
\* thread t.
TransmitFrame(t, arbitration_id, data) ==
  /\ hist.created = 1
  /\ budget.calls > 0
  /\ budget' = [budget EXCEPT !.calls = @ - 1]
  /\ LET w == isotp_user_send_can(links[1], arbitration_id, "SF", Len(data), data, bus, dev_ok)
     IN /\ bus' = w.bus
        /\ thr' = [thr EXCEPT ![t].engine_ret = w.ret, ![t].payload = data]
  /\ UNCHANGED <<links, engine, list, disp, poll, can_rx_mq, dev_ok, hist>>

NextTransmit ==
  \/ TransmitSetup
  \/ \E t \in Threads, id \in CanIds, d \in FrameData : TransmitFrame(t, id, d)
  \/ DeviceFault

SpecTransmit == InitTransmit /\ [][NextTransmit]_vars

\* The clock on its own: the system tick moves forward to the values around
\* which the microsecond count passes 2^32, and the engine reads the clock
\* on behalf of either thread.
TickValues == {0, 1, 65535, 65536, 4294967, 4294968, 8589934, 8589935, 2147483647}

InitClock ==
  /\ InitProgram
  /\ budget = [NoBudget EXCEPT !.calls = MaxCalls + 1]

\* rt_tick_increase, as often as it takes to reach tick n.
TickAdvance(n) ==
  /\ n > hist.tick
  /\ hist' = [hist EXCEPT !.tick = n]
  /\ UNCHANGED <<links, engine, list, thr, disp, poll, bus, can_rx_mq, dev_ok, budget>>

\* A call of isotp_user_get_us; thread t keeps the result and the tick.
GetUs(t) ==
  /\ budget.calls > 0
  /\ budget' = [budget EXCEPT !.calls = @ - 1]
  /\ thr' = [thr EXCEPT ![t].us = isotp_user_get_us(hist.tick), ![t].at_tick = hist.tick]
  /\ UNCHANGED <<links, engine, list, disp, poll, bus, can_rx_mq, dev_ok, hist>>

NextClock ==
  \/ \E n \in TickValues : TickAdvance(n)
  \/ \E t \in Threads : GetUs(t)

SpecClock == InitClock /\ [][NextClock]_vars

(* ------------------------- claims on the send path --------------------- *)

\* The contexts inside the isotp-c engine of link h.
InEngine(h) == {<<"send", t>> : t \in {u \in Threads : thr[u].pc = "in_send" /\ thr[u].link = h}} \cup (IF disp.pc = "in_engine" /\ disp.pos = h THEN {<<"dispatch", 0>>} ELSE {}) \cup (IF poll.pc = "in_engine" /\ poll.pos = h THEN {<<"poll", 0>>} ELSE {})

\* A thread that has returned from isotp_rtt_send.
SendReturned(t) == thr[t].op = "send" /\ thr[t].pc = "idle"

\* C1: a sender inside isotp_send, the consumer thread inside
\* isotp_on_can_message and the poll thread inside isotp_poll are never
\* inside the engine of the same link at the same time.
C1_EngineExclusive == \A h \in Handles : Cardinality(InEngine(h)) <= 1

\* C2: a send that returns RT_EOK consumed a TX_DONE that the engine
\* posted for its own payload, never only one posted for an earlier call.
C2_NoStaleCompletion == \A t \in Threads : (SendReturned(t) /\ thr[t].waited /\ thr[t].ret = RT_EOK) => thr[t].opid \in thr[t].got_ops

\* The transport log has no operation's frames after another operation's
\* frames that followed its own.
NotInterleaved(log) == \A i, j, k \in 1..Len(log) : (i < j /\ j < k /\ log[i] = log[k]) => log[j] = log[i]

\* C3: the sections of two isotp_rtt_send calls on one link between
\* rt_mutex_take and rt_mutex_release never overlap (who is in the section
\* owns the mutex), and the frames of two payloads are not interleaved on
\* the transport.
C3_SendersSerialized ==
  /\ \A t \in Threads : thr[t].pc \in SendCritical => links[thr[t].link].send_mutex = t
  /\ \A t, u \in Threads : (t # u /\ thr[t].pc \in SendCritical /\ thr[u].pc \in SendCritical) => thr[t].link # thr[u].link
  /\ NotInterleaved(hist.txlog)

\* C3's case: one sender waits for its completion while the other is blocked
\* in rt_mutex_take on the same link.
C3_Witness == \E t, u \in Threads : thr[t].pc = "wait" /\ thr[u].pc = "take" /\ thr[t].link = thr[u].link

\* C7: a thread that is not between take and release of isotp_rtt_send
\* (it has returned, with whatever result, or has not taken the mutex yet,
\* or was called with a null handle) holds no send mutex, and a mutex
\* that no sender is using is free for another thread.
C7_MutexReleased ==
  /\ \A t \in Threads, h \in Handles : links[h].send_mutex = t => (thr[t].pc \in SendCritical /\ thr[t].link = h)
  /\ \A t \in Threads : (thr[t].op = "send" /\ thr[t].link = NULL) => (thr[t].pc = "idle" /\ thr[t].ret = RT_EINVAL)

\* C7's case: one call has returned with a timeout and another with an
\* immediate rejection, and the mutex is free.
C7_Witness == \E t, u \in Threads : SendReturned(t) /\ thr[t].ret = RT_ETIMEOUT /\ SendReturned(u) /\ thr[u].ret = RT_ERROR /\ thr[t].link = 1 /\ thr[u].link = 1 /\ links[1].send_mutex = NULL

\* C8: the step on which the wait of isotp_rtt_send times out happens only
\* when neither TX_DONE nor ERROR is posted, yields -RT_ETIMEOUT and changes
\* neither the engine nor the link: a transmission in flight stays in flight.
C8_TimeoutKeepsEngine == [][\A t \in Threads : (thr[t].pc = "wait" /\ thr'[t].pc # "wait" /\ thr'[t].got_ops = {} /\ thr'[t].recved_evt = {}) => (thr'[t].ret = RT_ETIMEOUT /\ links[thr[t].link].event \cap {EVENT_FLAG_TX_DONE, EVENT_FLAG_ERROR} = {} /\ engine' = engine /\ links' = links)]_vars

\* C8's case: after a send has returned -RT_ETIMEOUT the engine completed
\* its transmission and posted TX_DONE for it.
C8_Witness == \E t \in Threads : SendReturned(t) /\ thr[t].ret = RT_ETIMEOUT /\ thr[t].opid \in links[thr[t].link].tx_done_ops

\* C9: when isotp_send rejects the payload, isotp_rtt_send goes on to
\* -RT_ERROR without waiting on the event, whatever the timeout, and has
\* released the mutex when it returns.
C9_FailFast == \A t \in Threads : (thr[t].op = "send" /\ thr[t].pc \in {"release", "idle"} /\ thr[t].engine_ret \notin {"none", ISOTP_RET_OK}) => (thr[t].ret = RT_ERROR /\ ~thr[t].waited /\ thr[t].recved_evt = {} /\ (thr[t].pc = "idle" => links[thr[t].link].send_mutex # t))

\* C9's case: a send with an unlimited timeout was rejected by the engine
\* and has returned.
C9_Witness == \E t \in Threads : SendReturned(t) /\ thr[t].timeout = RT_WAITING_FOREVER /\ thr[t].engine_ret = ISOTP_RET_INPROGRESS /\ thr[t].ret = RT_ERROR

(* ------------------------- claims on the dispatcher -------------------- *)

\* The elements of a sequence.
Range(q) == {q[i] : i \in 1..Len(q)}

\* The registered links that listen on identifier id.
Matching(id) == {h \in Registered : links[h].recv_arbitration_id = id}

\* The place of link h in the order of the isotp_rtt_create calls.
RegIndex(h) == CHOOSE i \in 1..Len(hist.reg) : hist.reg[i] = h

\* C4: when a call of isotp_rtt_on_can_msg_received ends, the frame has
\* been handed to the engine of every registered link whose receive
\* identifier equals the frame's identifier, once each, and to no other.
C4_FanOut == [][(disp' # disp /\ disp'.pc = "idle") => (Range(disp'.fwd) = Matching(disp'.msg.id) /\ Len(disp'.fwd) = Cardinality(Matching(disp'.msg.id)))]_vars

\* C4's case: a call has ended that fed two links and passed over a third
\* registered link that listens on another identifier.
C4_Witness == disp.pc = "idle" /\ Len(disp.fwd) = 2 /\ Registered \ Range(disp.fwd) # {}

\* C5: the links a frame is forwarded to get it in registration order, a
\* link created earlier before a link created later.
C5_RegistrationOrder == \A i, j \in 1..Len(disp.fwd) : i < j => RegIndex(disp.fwd[i]) < RegIndex(disp.fwd[j])

\* C5, as the code has it: the links a frame is forwarded to get it in
\* reverse registration order, the link created last first.
C5_ReverseRegistrationOrder == \A i, j \in 1..Len(disp.fwd) : i < j => RegIndex(disp.fwd[i]) > RegIndex(disp.fwd[j])

\* C5's case: two matching links have been fed one frame.
C5_Witness == Len(disp.fwd) = 2 /\ disp.fwd[1] # disp.fwd[2]

(* ------------------------- claims on the round trip -------------------- *)

\* Thread t has returned from an isotp_rtt_receive that got RX_DONE.
ReceiveReturned(t) == thr[t].op = "receive" /\ thr[t].pc = "idle" /\ EVENT_FLAG_RX_DONE \in thr[t].recved_evt

\* The payload thread 1 has sent on link 1.
Sent == thr[1].payload

\* C6: a payload no longer than the sender's send buffer and the
\* receiver's receive buffer, all of whose frames were dispatched to link 2,
\* is what isotp_rtt_receive on link 2 returns with RT_EOK in a caller buffer
\* that is large enough: out_size is its size and the bytes are its bytes.
C6_RoundTrip == \A t \in Threads : (ReceiveReturned(t) /\ Len(Sent) <= Min(engine[1].send_buf_size, links[2].rx_buf_size) /\ thr[t].buf_size >= Len(Sent)) => (thr[t].ret = RT_EOK /\ thr[t].out_size = Len(Sent) /\ SubSeq(thr[t].buf, 1, thr[t].out_size) = Sent)

\* C6's case: a payload of two frames has made the round trip.
C6_Witness == \E t \in Threads : ReceiveReturned(t) /\ thr[t].ret = RT_EOK /\ Len(Sent) = MaxLen /\ thr[t].out_size = MaxLen

\* C10: a message longer than the capacity C of the link's receive buffer
\* comes out of isotp_rtt_receive, given a caller buffer of at least C
\* bytes, as -RT_EFULL with out_size C and the first C bytes of the message.
C10_Truncation == \A t \in Threads : (ReceiveReturned(t) /\ Len(Sent) > links[2].rx_buf_size /\ thr[t].buf_size >= links[2].rx_buf_size) => (thr[t].ret = RT_EFULL /\ thr[t].out_size = links[2].rx_buf_size /\ SubSeq(thr[t].buf, 1, thr[t].out_size) = SubSeq(Sent, 1, links[2].rx_buf_size))

\* C10's case: a message longer than the receive buffer has been received.
C10_Witness == \E t \in Threads : ReceiveReturned(t) /\ Len(Sent) > links[2].rx_buf_size /\ thr[t].ret = RT_EFULL /\ thr[t].out_size = links[2].rx_buf_size


(* ------------------------- claims on the copy-out ---------------------- *)

\* Thread t takes the step of isotp_rtt_receive that checks the size and
\* copies out.
CopyStep(t) == thr[t].pc = "r_copy" /\ thr'[t].pc = "idle"

\* The caller's buffer after the step holds the first n bytes of the link's
\* receive buffer and is otherwise as before.
CopiedExactly(t, n) == thr'[t].buf = [i \in 1..thr[t].buf_size |-> IF i <= n THEN links[thr[t].link].rx_buf[i] ELSE thr[t].buf[i]]

\* C11: on RX_DONE isotp_rtt_receive copies exactly
\* min(rx_actual_size, buf_size) bytes into the caller's buffer, also when
\* rx_actual_size > buf_size and it returns -RT_ENOMEM.
C11_CopiesMin == [][\A t \in Threads : CopyStep(t) => CopiedExactly(t, Min(links[thr[t].link].rx_actual_size, thr[t].buf_size))]_vars

\* C11, as the code has it: with rx_actual_size <= buf_size exactly
\* rx_actual_size bytes are copied and out_size is rx_actual_size; with
\* rx_actual_size > buf_size nothing is copied, out_size is 0 and the
\* result is -RT_ENOMEM.
C11_CopiesAllOrNothing == [][\A t \in Threads : CopyStep(t) => LET n == links[thr[t].link].rx_actual_size IN IF n <= thr[t].buf_size THEN CopiedExactly(t, n) /\ thr'[t].out_size = n /\ thr'[t].ret \in {RT_EOK, RT_EFULL} ELSE CopiedExactly(t, 0) /\ thr'[t].out_size = 0 /\ thr'[t].ret = RT_ENOMEM]_vars

\* C11's case: a receive has returned -RT_ENOMEM for a caller buffer that is
\* not empty.
C11_Witness == \E t \in Threads : ReceiveReturned(t) /\ thr[t].ret = RT_ENOMEM /\ thr[t].buf_size >= 1


(* ------------------------- claims on the receive path ------------------ *)

\* Thread t has returned from isotp_rtt_receive with bytes copied out.
ReceiveCopied(t) == ReceiveReturned(t) /\ thr[t].ret \in {RT_EOK, RT_EFULL}

\* C12: what isotp_rtt_receive copies out is the message whose RX_DONE it
\* observed: size and bytes are those the link held when the wait returned,
\* the dispatcher has not changed them before the copy was done.
C12_CopiesObservedMessage == \A t \in Threads : ReceiveCopied(t) => (thr[t].out_size = thr[t].seen_size /\ SubSeq(thr[t].buf, 1, thr[t].out_size) = SubSeq(thr[t].seen_buf, 1, thr[t].seen_size))


\* Thread t begins an isotp_rtt_receive on a link.
ReceiveCallStep(t) == thr[t].pc = "idle" /\ thr'[t].pc = "r_wait"

\* The wait of thread t's isotp_rtt_receive returns with RX_DONE.
ReceiveWakeStep(t) == thr[t].pc = "r_wait" /\ thr'[t].pc = "r_copy"

\* The wait of thread t's isotp_rtt_receive times out.
ReceiveTimeoutStep(t) == thr[t].pc = "r_wait" /\ thr'[t].pc = "idle" /\ thr'[t].ret = RT_ETIMEOUT

\* C13: isotp_rtt_receive clears stale completion bits before its wait, so
\* the RX_DONE that ends the wait was signalled after the call began.
C13_StaleBitsCleared == [][\A t \in Threads : ReceiveWakeStep(t) => links[thr[t].link].rx_dones > thr[t].pre_dones]_vars

\* C13, as the code has it: isotp_rtt_receive goes into its wait without
\* touching the event, and the wait times out only when neither RX_DONE nor
\* ERROR is posted; a bit posted before the call ends the wait at once.
C13_NoPreClear == [][\A t \in Threads : (ReceiveCallStep(t) => links' = links) /\ (ReceiveTimeoutStep(t) => links[thr[t].link].event \cap {EVENT_FLAG_RX_DONE, EVENT_FLAG_ERROR} = {})]_vars

\* C13's case: a receive has returned a message although no completion was
\* signalled since it was called: the RX_DONE it got was posted before.
C13_Witness == \E t \in Threads : ReceiveCopied(t) /\ EVENT_FLAG_RX_DONE \in thr[t].pre_evt /\ links[thr[t].link].rx_dones = thr[t].pre_dones


(* ------------------------- claims on the registry ---------------------- *)

\* C14: a link whose isotp_rtt_destroy has returned is not fed a frame by
\* any call of isotp_rtt_on_can_msg_received that begins afterwards, whatever
\* the frame's identifier, and isotp_poll is not called on it in any
\* iteration of the poll thread that begins afterwards.
C14_Teardown ==
  /\ disp.pc \in {"scan", "in_engine"} => disp.pos \notin disp.gone
  /\ Range(disp.fwd) \cap disp.gone = {}
  /\ poll.pc \in {"scan", "in_engine"} => poll.pos \notin poll.gone
  /\ Range(poll.visited) \cap poll.gone = {}

\* C14's case: after a link was destroyed, a frame with its receive
\* identifier has been dispatched and the poll thread is in a new iteration.
C14_Witness == \E h \in Handles : h \in disp.gone /\ disp.pc = "idle" /\ disp.msg.id = links[h].recv_arbitration_id /\ disp.msg # NoMsg /\ h \in poll.gone /\ poll.pc = "in_engine"


\* The links created and not yet destroyed.
Live == {h \in Handles : links[h].state = "live"}

\* C15: the registry holds exactly the links that were created successfully
\* and not yet destroyed, each exactly once, and the link whose handle
\* isotp_rtt_create returned last is in the registry from the return on until
\* it is destroyed.
C15_RegistryMembership ==
  /\ Registered = Live
  /\ Len(Registry) = Cardinality(Live)
  /\ IF Registry = <<>> THEN list.next[HEAD] = HEAD ELSE list.next[Registry[Len(Registry)]] = HEAD
  /\ hist.created # NULL => (hist.created \in Registered <=> hist.created \in Live)

\* C15's case: links were created, one was destroyed and another is still
\* registered.
C15_Witness == Freed # {} /\ hist.created \in Live /\ Cardinality(Live) >= 1 /\ Len(hist.reg) >= 2


\* A call of isotp_rtt_create in which rt_mutex_create returned RT_NULL.
MutexCreateFailed == budget'.nomem < budget.nomem

\* C16: when the creation of the link's mutex fails inside isotp_rtt_create,
\* the call returns RT_NULL, no link is added to the registry and the link
\* allocated so far is released.
C16_CreateFailsOnMutexFailure == [][MutexCreateFailed => hist'.created = NULL /\ list' = list /\ links' = links]_vars


(* ------------------------- claims on the poll thread ------------------- *)

\* The poll thread leaves the list: its iteration ends.
PollIterationEnds == poll.pc = "in_engine" /\ poll'.pc = "sleep"

\* isotp_poll is being called on link h.
Polled(h) == poll.pc = "in_engine" /\ poll.pos = h

\* C17: in every iteration of the poll thread isotp_poll is called exactly
\* once on every link that was registered when the iteration began, and if
\* the poll thread is scheduled fairly isotp_poll is called on every
\* registered link again and again, whether or not a frame is dispatched.
C17_PollProgress ==
  /\ [][PollIterationEnds => Range(poll.visited) = poll.reg0 /\ Len(poll.visited) = Cardinality(poll.reg0)]_vars
  /\ \A h \in Handles : links[h].state = "live" ~> Polled(h)

\* C17's case: no frame has arrived and the poll thread has called
\* isotp_poll on both registered links in one iteration.
C17_Witness == budget.env = MaxEnvFrames /\ poll.pc = "in_engine" /\ Len(poll.visited) = 2 /\ Cardinality(Registered) = 2 /\ poll.n = HEAD


(* ------------------------- claims on the interrupt path ---------------- *)

\* can_rx_callback runs: it reads one frame from the device.
IsrStep == bus # <<>> /\ bus' = Tail(bus)

\* can_rx_callback runs while the message queue is full.
IsrDropStep == IsrStep /\ Len(can_rx_mq) = CAN_RX_MQ_SIZE

\* C18 as stated: a frame dropped on a full queue is recorded by the
\* program (a drop counter or any other state of the program changes).
C18_DropCounted == [][IsrDropStep => <<links, engine, list, thr, disp, poll, can_rx_mq, dev_ok>>' # <<links, engine, list, thr, disp, poll, can_rx_mq, dev_ok>>]_vars

\* C18: the interrupt producer never waits for queue space, the queue never
\* holds more than its depth, and on a full queue the new frame is dropped:
\* the queued frames and all other state of the program stay as they are
\* (the drop is logged, not counted).
C18_DropOnFull ==
  /\ [](Len(can_rx_mq) <= CAN_RX_MQ_SIZE /\ (bus # <<>> => ENABLED can_rx_callback))
  /\ [][IsrDropStep => UNCHANGED <<links, engine, list, thr, disp, poll, can_rx_mq, dev_ok>>]_vars

\* C18's case: one frame more than the queue holds has arrived and been
\* read by the interrupt before the consumer thread took any.
C18_Witness == budget.env = 0 /\ bus = <<>> /\ Len(can_rx_mq) = CAN_RX_MQ_SIZE /\ disp.pc = "idle" /\ disp.msg = NoMsg


\* The device is written to: a frame is appended to the bus by the program
\* (a frame from another node comes with a change of the budget).
DeviceWritten == budget' = budget /\ Len(bus') >= Len(bus) /\ bus' # bus

\* The consumer thread, inside isotp_rtt_on_can_msg_received, calls
\* isotp_on_can_message.
ForwardStep == disp.pc = "scan" /\ disp'.pc = "in_engine"

\* C19: the engine is fed frames by the consumer thread only. The receive
\* interrupt takes a frame from the device and at most appends it to the
\* queue: it changes no link, no engine and no thread, and every change of
\* an engine or a link and every write to the device happens in a step of
\* the consumer thread inside isotp_rtt_on_can_msg_received.
C19_ForwardInThreadContext ==
  [][/\ (engine' # engine \/ links' # links \/ DeviceWritten) => ForwardStep /\ can_rx_mq' = can_rx_mq
     /\ Len(bus') < Len(bus) => bus' = Tail(bus) /\ can_rx_mq' \in {can_rx_mq, Append(can_rx_mq, Head(bus))} /\ UNCHANGED <<links, engine, list, thr, disp, poll>>]_vars

\* C19's case: the consumer thread has forwarded a first frame taken from
\* the queue and the engine's flow-control reply has been written.
C19_Witness == disp.pc = "in_engine" /\ disp.msg.kind = "FF" /\ \E i \in 1..Len(bus) : bus[i].kind = "FC"


(* ------------------------- claims on unmatched frames ------------------ *)

\* A step of isotp_rtt_on_can_msg_received on a frame whose identifier no
\* registered link listens on.
UnmatchedStep == disp' # disp /\ disp'.msg # NoMsg /\ Matching(disp'.msg.id) = {}

\* C20: a dispatched frame whose identifier matches no registered link is
\* dropped: no engine is called, and no link (its event bits, recorded
\* size, truncation flag and receive buffer), no engine state and nothing
\* on the bus changes.
C20_UnmatchedDropped == [][UnmatchedStep => disp'.pc # "in_engine" /\ disp'.fwd = <<>> /\ links' = links /\ engine' = engine /\ bus' = bus]_vars

\* C20's case: with two links registered, the call for a frame with an
\* identifier neither listens on has run to its end.
C20_Witness == disp.pc = "idle" /\ disp.msg.id = 3 /\ disp.fwd = <<>> /\ Cardinality(Registered) >= 2 /\ bus = <<>> /\ can_rx_mq = <<>>


(* ------------------------- claims on receive results ------------------- *)

\* isotp_rtt_receive returns from its wait while neither RX_DONE nor ERROR
\* is posted on the link.
ReceiveUnsignalledReturn(t) == thr[t].pc = "r_wait" /\ thr'[t].pc # "r_wait" /\ links[thr[t].link].event \cap {EVENT_FLAG_RX_DONE, EVENT_FLAG_ERROR} = {}

\* C21: when neither receive-done nor error is signalled within the
\* timeout, isotp_rtt_receive returns -RT_ETIMEOUT with *out_size = 0 and
\* leaves the caller's buffer and the link (its event bits, recorded size
\* and truncation flag) as they were.
C21_TimeoutLeavesState == [][\A t \in Threads : ReceiveUnsignalledReturn(t) => thr'[t].pc = "idle" /\ thr'[t].ret = RT_ETIMEOUT /\ thr'[t].out_size = 0 /\ thr'[t].buf = thr[t].buf /\ links' = links]_vars

\* C21's case: a receive has timed out on a link that holds a message
\* recorded earlier.
C21_Witness == \E t \in Threads : thr[t].op = "receive" /\ thr[t].pc = "idle" /\ thr[t].ret = RT_ETIMEOUT /\ thr[t].buf_size >= 1 /\ links[thr[t].link].rx_actual_size > 0


\* The arguments of the call thread record c is in (or was last in) are
\* invalid: a null handle, or for a receive a null payload_buf or out_size.
InvalidArgs(c) == c.op # "none" /\ (c.link = NULL \/ (c.op = "receive" /\ (~c.buf_ok \/ ~c.out_ok)))

\* Thread t enters an API call.
CallStep(t) == thr[t].pc = "idle" /\ thr'[t] # thr[t]

\* C22: isotp_rtt_send with a null handle and isotp_rtt_receive with a null
\* handle, null payload_buf or null out_size return -RT_EINVAL at once: the
\* thread never gets to the mutex, the wait or the engine, and the call
\* changes no link (no event bit is consumed), no engine and nothing on
\* the bus, and writes neither the caller's buffer nor *out_size.
C22_InvalidArgsRejected ==
  /\ [](\A t \in Threads : InvalidArgs(thr[t]) => thr[t].pc = "idle" /\ thr[t].ret = RT_EINVAL /\ thr[t].out_size = UNSET /\ thr[t].buf = Zeros(thr[t].buf_size))
  /\ [][\A t \in Threads : CallStep(t) /\ InvalidArgs(thr'[t]) => links' = links /\ engine' = engine /\ bus' = bus]_vars

\* C22's case: a send with a null handle and a receive with a null buffer
\* on a link whose receive-done bit is posted have both returned.
C22_Witness == \E t, u \in Threads : thr[t].op = "send" /\ thr[t].link = NULL /\ thr[t].ret = RT_EINVAL /\ thr[u].op = "receive" /\ thr[u].link = 1 /\ ~thr[u].buf_ok /\ thr[u].ret = RT_EINVAL /\ EVENT_FLAG_RX_DONE \in links[1].event


(* ------------------------- claims on the non-blocking send ------------- *)

\* Thread t calls isotp_rtt_send_nonblocking.
NonblockingStep(t) == CallStep(t) /\ thr'[t].op = "send_nonblocking"

\* The frame the engine writes first for payload p on identifier id.
FirstFrame(id, p) == CanMsg(id, "STD", "DTR", IF Len(p) <= FrameCap THEN "SF" ELSE "FF", Len(p), SubSeq(p, 1, Min(Len(p), FrameCap)))

MessagePending(h) == links[h].rx_dones > links[h].rx_taken

\* Every completion signalled on the link of thread t's receive call was
\* signalled before the call began.
NothingNewSince(t) == links[thr[t].link].rx_dones = thr[t].pre_dones

\* C24: a completed inbound message is not lost by a send on the same
\* link: an isotp_rtt_receive that begins after the message was completed,
\* and finds it not yet taken by any receive, does not time out.
C24_MessageSurvivesSend == [][\A t \in Threads : ReceiveTimeoutStep(t) /\ NothingNewSince(t) => ~MessagePending(thr[t].link)]_vars


(* ------------------------- claims on freed links ----------------------- *)

\* C25: with no isotp_rtt_create or isotp_rtt_destroy overlapping a call of
\* isotp_rtt_on_can_msg_received, no freed link is accessed: the dispatcher
\* and the poll thread are never inside the engine on a freed link and
\* never read a freed list entry.
C25_NoFreedLinkAccessed ==
  /\ ~hist.uaf
  /\ poll.pc = "in_engine" => links[poll.pos].state = "live"
  /\ disp.pc = "in_engine" => links[disp.pos].state = "live"


(* ------------------------- claims on termination ----------------------- *)

\* Thread t is inside isotp_rtt_send with a finite timeout.
InFiniteSend(t) == thr[t].op = "send" /\ thr[t].pc # "idle" /\ thr[t].timeout = FINITE

\* C26: every call of isotp_rtt_send with a finite timeout eventually
\* returns, whatever the other senders on the link do.
C26_FiniteSendReturns == \A t \in Threads : InFiniteSend(t) ~> thr[t].pc = "idle"


(* ------------------------- claims on the rx-completion callback -------- *)

\* C27: after the rx-completion callback, the recorded size is the smaller
\* of the reported size and the receive buffer's capacity and the
\* truncation flag says whether the reported size exceeded the capacity;
\* the callback posts EVENT_FLAG_RX_DONE and no other bit, also when it
\* truncated.
C27_RecordedSize ==
  /\ [](\A h \in Handles : links[h].rx_dones > 0 => links[h].rx_actual_size = Min(links[h].rx_reported, links[h].rx_buf_size) /\ links[h].rx_truncated = (links[h].rx_reported > links[h].rx_buf_size))
  /\ [][\A h \in Handles : links'[h].rx_dones > links[h].rx_dones => links'[h].event = links[h].event \cup {EVENT_FLAG_RX_DONE}]_vars

\* C27's case: a size beyond 16 bits was reported to a link of the largest
\* capacity and recorded as truncated, with only receive-done posted.
C27_Witness == \E h \in Handles : links[h].rx_reported > UINT16_MAX /\ links[h].rx_buf_size = UINT16_MAX /\ links[h].rx_truncated /\ links[h].rx_actual_size = UINT16_MAX /\ links[h].event = {EVENT_FLAG_RX_DONE}


\* C28: on every link the recorded size is at most the receive buffer's
\* capacity, and equal to it when the truncation flag is set; so the copy in
\* isotp_rtt_receive reads at most capacity bytes from the link's buffer
\* and writes at most buf_size bytes into the caller's buffer.
C28_SizeWithinCapacity ==
  /\ [](\A h \in Handles : links[h].rx_actual_size <= links[h].rx_buf_size /\ Len(links[h].rx_buf) = links[h].rx_buf_size /\ (links[h].rx_truncated => links[h].rx_actual_size = links[h].rx_buf_size))
  /\ [][\A t \in Threads : CopyStep(t) /\ thr'[t].ret # RT_ENOMEM => thr'[t].out_size = links[thr[t].link].rx_actual_size /\ thr'[t].out_size <= links[thr[t].link].rx_buf_size /\ thr'[t].out_size <= thr[t].buf_size]_vars
  /\ [](\A t \in Threads : Len(thr[t].buf) = thr[t].buf_size)

\* C28's case: a link holds a truncated message that fills its buffer and
\* a receive has copied it out.
C28_Witness == \E h \in Handles : links[h].rx_truncated /\ links[h].rx_actual_size = links[h].rx_buf_size /\ links[h].rx_buf_size >= 1 /\ \E t \in Threads : ReceiveReturned(t) /\ thr[t].link = h /\ thr[t].ret = RT_EFULL /\ thr[t].buf_size >= thr[t].out_size


\* Thread t's receive was refused with -RT_ENOMEM for the latest message
\* completed on the link, and thread u's receive on the same link began
\* after t's had returned, with a buffer large enough for the message and
\* with no completion since.
RefusedThenRetried(t, u) ==
  /\ t # u
  /\ thr[t].op = "receive" /\ thr[t].pc = "idle" /\ thr[t].ret = RT_ENOMEM
  /\ thr[t].link = thr[u].link
  /\ thr[t].seen_dones = links[thr[u].link].rx_dones
  /\ NothingNewSince(u)
  /\ thr[u].opid > thr[t].returned_at
  /\ thr[u].buf_size >= links[thr[u].link].rx_actual_size

\* C29: a receive refused with -RT_ENOMEM does not lose the message: a
\* following receive on the link with a large enough buffer, with no new
\* message completed in between, does not time out.
C29_MessageKeptAfterNoMem == [][\A t, u \in Threads : ReceiveTimeoutStep(u) => ~RefusedThenRetried(t, u)]_vars


(* ------------------------- claims on the error bit --------------------- *)

BlockedOn(t, h) == thr[t].link = h /\ thr[t].pc \in {"take", "r_wait"} \cup SendCritical

\* C31: isotp_rtt_destroy never releases a link's event, mutex or memory
\* while a thread is still inside isotp_rtt_send or isotp_rtt_receive on
\* that link.
C31_NoDestroyWhileBlocked ==
  \A h \in Handles : links[h].state = "freed" => \A t \in Threads : ~BlockedOn(t, h)

(* -------------------- claims on signals and their waiters -------------- *)

\* The wait of thread t's isotp_rtt_receive returns, one way or the other.
ReceiveWaitReturns(t) == thr[t].pc = "r_wait" /\ thr'[t].pc # "r_wait"

\* C32: each receive-done signal satisfies at most one isotp_rtt_receive:
\* the wait that returns with RX_DONE takes a completion no receive has
\* taken before and leaves the bit cleared, RX_DONE is posted only while
\* such a completion exists, and a wait that returns while none exists
\* returns -RT_ETIMEOUT with *out_size = 0.
C32_SignalTakenOnce ==
  /\ [](\A h \in Handles : EVENT_FLAG_RX_DONE \in links[h].event => MessagePending(h))
  /\ [][\A t \in Threads : ReceiveWakeStep(t) => (MessagePending(thr[t].link) /\ EVENT_FLAG_RX_DONE \notin links'[thr[t].link].event /\ links'[thr[t].link].rx_taken = links[thr[t].link].rx_dones)]_vars
  /\ [][\A t \in Threads : (ReceiveWaitReturns(t) /\ ~MessagePending(thr[t].link)) => (thr'[t].pc = "idle" /\ thr'[t].ret = RT_ETIMEOUT /\ thr'[t].out_size = 0)]_vars

\* C32's case: a receive has returned a message, a second receive on the
\* link was called after that return and has timed out, and the link has
\* completed no message since the first one took its signal.
C32_Witness ==
  \E t \in Threads, u \in Threads :
    /\ t # u
    /\ thr[t].op = "receive" /\ thr[t].pc = "idle" /\ thr[t].ret = RT_EOK /\ thr[t].out_size >= 1
    /\ thr[u].op = "receive" /\ thr[u].pc = "idle" /\ thr[u].ret = RT_ETIMEOUT
    /\ thr[u].link = thr[t].link
    /\ thr[u].opid > thr[t].returned_at
    /\ links[thr[t].link].rx_dones = thr[t].seen_dones

\* The wait of thread t's isotp_rtt_send returns, one way or the other.
SendWaitReturns(t) == thr[t].pc = "wait" /\ thr'[t].pc # "wait"

\* Flag f is posted on the link of thread t's call after the step exactly
\* when it was before.
FlagKept(t, f) == (f \in links'[thr[t].link].event) <=> (f \in links[thr[t].link].event)

\* C33: a sender and a receiver waiting on one link are each woken only by
\* their own completion: the wait of isotp_rtt_receive returns without a
\* timeout only on RX_DONE and leaves TX_DONE as it is, the wait of
\* isotp_rtt_send returns without a timeout only on TX_DONE and leaves
\* RX_DONE as it is.
C33_OwnCompletionOnly ==
  [][\A t \in Threads :
       /\ (ReceiveWaitReturns(t) /\ thr'[t].ret # RT_ETIMEOUT) => (EVENT_FLAG_RX_DONE \in links[thr[t].link].event /\ thr'[t].recved_evt = {EVENT_FLAG_RX_DONE} /\ FlagKept(t, EVENT_FLAG_TX_DONE))
       /\ (SendWaitReturns(t) /\ thr'[t].ret # RT_ETIMEOUT) => (EVENT_FLAG_TX_DONE \in links[thr[t].link].event /\ thr'[t].recved_evt = {EVENT_FLAG_TX_DONE} /\ FlagKept(t, EVENT_FLAG_RX_DONE))]_vars

\* C33's case: one thread waits in isotp_rtt_send and another in
\* isotp_rtt_receive on the same link, and only TX_DONE is posted.
C33_Witness ==
  \E t \in Threads, u \in Threads :
    /\ thr[t].pc = "wait" /\ thr[u].pc = "r_wait"
    /\ thr[t].link = thr[u].link
    /\ links[thr[t].link].event = {EVENT_FLAG_TX_DONE}

(* ------------------------- claims on the frame queue ------------------- *)

\* The consumer thread takes a frame and hands it to
\* isotp_rtt_on_can_msg_received.
HandStep == hist'.handed # hist.handed

\* C34: the frames the interrupt put into the message queue are handed to
\* isotp_rtt_on_can_msg_received in the order they were put in, each once:
\* the frames accepted so far are those handed so far followed by those
\* still queued. The interrupt accepts every frame it reads while the queue
\* has room and drops only on a full queue, and only the consumer thread,
\* between two calls of isotp_rtt_on_can_msg_received, takes a frame.
C34_QueueOrder ==
  /\ [](hist.accepted = hist.handed \o can_rx_mq)
  /\ [][IsrStep => (IF Len(can_rx_mq) < CAN_RX_MQ_SIZE THEN hist'.accepted = Append(hist.accepted, Head(bus)) ELSE hist'.accepted = hist.accepted)]_vars
  /\ [][HandStep => (disp.pc = "idle" /\ hist'.handed = Append(hist.handed, disp'.msg) /\ disp'.msg = Head(can_rx_mq))]_vars
  /\ [][disp'.msg # disp.msg => HandStep]_vars

\* C34's case: more frames than the queue holds have arrived, the last was
\* dropped on the full queue, and the consumer thread has been handed the
\* accepted ones, two different frames.
C34_Witness ==
  /\ budget.env = 0 /\ bus = <<>> /\ can_rx_mq = <<>>
  /\ Len(hist.accepted) = CAN_RX_MQ_SIZE
  /\ hist.handed = hist.accepted
  /\ hist.handed[1] # hist.handed[2]

(* ------------------------- claims on create's arguments ---------------- *)

\* isotp_rtt_create is called and returns.
CreateStep == budget'.creates < budget.creates

\* C35: isotp_rtt_create called with a null device handle returns RT_NULL
\* and changes nothing: the registry holds the same links in the same
\* order, no link or engine state is written, and no event or mutex is
\* created.
C35_NullDeviceRejected ==
  [][(CreateStep /\ hist'.arg_dev = NULL) => (hist'.created = NULL /\ list' = list /\ links' = links /\ engine' = engine /\ budget'.nomem = budget.nomem)]_vars

\* C35's case: with two links registered and memory for a third, a create
\* with a null device handle has returned RT_NULL.
C35_Witness ==
  /\ hist.arg_dev = NULL /\ hist.created = NULL
  /\ Len(Registry) >= 2
  /\ \E h \in Handles : links[h].state = "unused"

(* ------------------------- claims on the transmit callback ------------- *)

\* The context the callback is given is null or has no device.
NoTransport(lnk) == lnk.state # "live" \/ lnk.can_dev = NULL

\* C36: isotp_user_send_can returns ISOTP_RET_OK exactly when the device
\* write accepted the frame, and ISOTP_RET_ERROR without writing when the
\* link context or its device is null; the frame written carries the
\* identifier, the bytes and the length the engine gave, and the identifier
\* kind and frame kind of the link.
C36_TransmitCallback ==
  \A id \in CanIds, data \in FrameData :
    LET lnk == links[1]
        w == isotp_user_send_can(lnk, id, "SF", Len(data), data, bus, dev_ok)
    IN /\ w.ret \in {ISOTP_RET_OK, ISOTP_RET_ERROR}
       /\ (w.ret = ISOTP_RET_OK) <=> (~NoTransport(lnk) /\ dev_ok)
       /\ NoTransport(lnk) => w.bus = bus
       /\ w.ret = ISOTP_RET_OK =>
            /\ Len(w.bus) = Len(bus) + 1
            /\ SubSeq(w.bus, 1, Len(bus)) = bus
            /\ LET f == w.bus[Len(w.bus)]
               IN f.id = id /\ f.data = data /\ f.len = Len(data) /\ f.ide = lnk.send_ide /\ f.rtr = lnk.send_rtr

\* C36's case: on a link created for extended remote frames the callback
\* has written an eight-byte frame with a 29-bit identifier and returned
\* ISOTP_RET_OK, and a later call has returned ISOTP_RET_ERROR because the
\* device refused the write.
C36_Witness ==
  /\ links[1].send_ide = "EXT" /\ links[1].send_rtr = "RTR"
  /\ bus = <<CanMsg(536870911, "EXT", "RTR", "SF", CAN_MAX_DLEN, [i \in 1..CAN_MAX_DLEN |-> i])>>
  /\ thr[1].engine_ret = ISOTP_RET_OK
  /\ thr[2].engine_ret = ISOTP_RET_ERROR
  /\ ~dev_ok

(* ------------------------- claims on the clock ------------------------- *)

\* Threads t and u have both read the clock, u not before t.
ReadInOrder(t, u) == thr[t].at_tick # UNSET /\ thr[u].at_tick # UNSET /\ thr[u].at_tick >= thr[t].at_tick

\* C37 as stated: of two calls of isotp_user_get_us, the one at the later
\* (or the same) system tick never returns the smaller value.
C37_Monotonic == \A t \in Threads, u \in Threads : ReadInOrder(t, u) => U32Leq(thr[t].us, thr[u].us)

\* C37, as the code has it: the result is the microsecond count cut to 32
\* bits, so it is monotonic only between two wraps: of two calls within the
\* same period of 2^32 microseconds, the one at the later (or the same)
\* tick never returns the smaller value, and calls at the same tick return
\* the same value.
C37_MonotonicWithinPeriod ==
  \A t \in Threads, u \in Threads :
    (ReadInOrder(t, u) /\ UsPeriod(thr[t].at_tick) = UsPeriod(thr[u].at_tick)) =>
      /\ U32Leq(thr[t].us, thr[u].us)
      /\ thr[t].at_tick = thr[u].at_tick => thr[t].us = thr[u].us

\* C37's case: two calls at different ticks after the first wrap and before
\* the second, with different results.
C37_Witness ==
  \E t \in Threads, u \in Threads :
    /\ ReadInOrder(t, u)
    /\ thr[t].at_tick < thr[u].at_tick
    /\ UsPeriod(thr[t].at_tick) = 1 /\ UsPeriod(thr[u].at_tick) = 1
    /\ thr[t].us # thr[u].us

====
